---- MODULE Spec2Model ----
(***************************************************************************)
(* A model of the project scaffolding CLI: the set comparator              *)
(* (src/src/compare.ts), the package.json helper (src/unnamed/part_000),   *)
(* the configuration tables (src/unnamed/part_001) and, of the             *)
(* orchestrator (src/src/app.ts), the prompts, the package.json step       *)
(* (handlePackageJson) and the config file steps (handleConfigCopy,        *)
(* handleConfigMerge).                                                     *)
(*                                                                         *)
(* JavaScript values are represented as follows.                           *)
(*   - an array, and a Set in insertion order: a sequence;                 *)
(*   - an object: a function whose DOMAIN is the set of its own keys;      *)
(*   - the key order of the dependencies / devDependencies objects, which  *)
(*     Object.keys exposes: a sequence of distinct keys (the version       *)
(*     ranges stored as values are never read by the tool);                *)
(*   - a string that the code takes apart (the project title): a sequence  *)
(*     of one-character strings; any other string: a TLA+ string.          *)
(***************************************************************************)
EXTENDS Integers, Sequences, FiniteSets, TLC

VARIABLES
    left,        \* compare(): the first input iterable
    right,       \* compare(): the second input iterable
    comparison,  \* compare(left, right), once computed
    swapped,     \* compare(right, left), once computed
    disk,        \* ./package.json on disk: NoFile, Unreadable or its content
    content,     \* PackageHelper.content of the helper in use, or NoHelper
    options,     \* the Options bundle of the run
    CONFIG,      \* the module-level CONFIG of app.ts
    pc,          \* position of the run
    needsSave,   \* handlePackageJson: let needsSave
    index,       \* handlePackageJson: position in Object.entries(CONFIG.scripts)
    existingScripts, \* handlePackageJson: const existingScripts
    before,      \* the helper's content when the last operation began
    call,        \* the last operation: its name, arguments and return / throw
    spawned,     \* every spawn.sync('npm', ...) of the last operation: the
                 \* packages passed and the error stream captured
    asked,       \* every call of query() so far: message triple and answer
    prompted,    \* number of prompts() calls (interactive I/O) so far
    saves,       \* number of writeFileAtomic('./package.json', ...) calls so far
    returned,    \* the value a getter of the helper returned to its caller
    files,       \* the last config file handled: what was read, asked, written
    tree,        \* the last template item handled: the target directory as
                 \* found and as left
    deploy,      \* handleClasp: the credentials and deployment files, the
                 \* commands run and the calls that have not settled yet
    atomic       \* the writeFileAtomic call under way: what is at the path
                 \* and how much of the temporary file has been written

vars == <<left, right, comparison, swapped, disk, content, options, CONFIG, pc,
          needsSave, index, existingScripts, before, call, spawned, asked,
          prompted, saves, returned, files, tree, deploy, atomic>>

compareVars == <<left, right, comparison, swapped>>

setupVars == <<tree, deploy, atomic>>

moreVars == <<returned, files, setupVars>>

(***************************************************************************)
(* Bounds of the model.                                                    *)
(***************************************************************************)
MaxLen == 3      \* longest input iterable given to compare()
MaxElem == 3     \* compare() inputs hold elements of 1..MaxElem
MaxDeps == 2     \* most keys of an initial "dependencies" object
MaxDev == 1      \* most keys of an initial "devDependencies" object
MaxReq == 2      \* longest ad-hoc package list given to installPackages
MaxScripts == 2  \* most entries of an initial "scripts" object
MaxTitle == 4    \* longest generated title given to updateName
MaxWrites == 1   \* most writes of a caller to a value a getter returned
MaxText == 4     \* most characters of a generated config file

(***************************************************************************)
(* Generic helpers.                                                        *)
(***************************************************************************)
Range(s) == {s[i] : i \in 1..Len(s)}

SeqsUpTo(S, n) == UNION {[1..k -> S] : k \in 0..n}

NoDup(s) == \A i, j \in 1..Len(s) : s[i] = s[j] => i = j

DistinctSeqsUpTo(S, n) == {s \in SeqsUpTo(S, n) : NoDup(s)}

(***************************************************************************)
(* src/src/compare.ts: SetComparison                                       *)
(***************************************************************************)
\* a mutant of NewSet: the Set keeps every inserted element
NewSetKeepsDuplicates(s) == s

\* new Set(iterable): the distinct elements in first-insertion order
RECURSIVE NewSet(_)
NewSet(s) ==
    IF s = <<>> THEN <<>>
    ELSE LET init == NewSet(SubSeq(s, 1, Len(s) - 1))
             last == s[Len(s)]
         IN IF last \in Range(init) THEN init ELSE Append(init, last)

\* SetComparison.create(left, right)
create(l, r) ==
    LET leftSet == NewSet(l)
        rightSet == NewSet(r)
        union == NewSet(leftSet \o rightSet)
    IN [i \in 1..Len(union) |->
           [element |-> union[i],
            left |-> union[i] \in Range(leftSet),
            right |-> union[i] \in Range(rightSet)]]

\* entries.filter(keep).map(entry => entry.element)
RECURSIVE FilterElements(_, _, _)
FilterElements(entries, inLeft, inRight) ==
    IF entries = <<>> THEN <<>>
    ELSE LET e == Head(entries)
             rest == FilterElements(Tail(entries), inLeft, inRight)
         IN IF e.left = inLeft /\ e.right = inRight THEN <<e.element>> \o rest
            ELSE rest

\* get left(): entry.left && !entry.right
leftOf(entries) == FilterElements(entries, TRUE, FALSE)

\* a mutant of rightOf: the filter keeps every entry of the right input
rightOfIncludesBoth(entries) ==
    FilterElements(entries, FALSE, TRUE) \o FilterElements(entries, TRUE, TRUE)

\* get right(): entry.right && !entry.left
rightOf(entries) == FilterElements(entries, FALSE, TRUE)

\* get both(): entry.left && entry.right
bothOf(entries) == FilterElements(entries, TRUE, TRUE)

\* compare(left, right), with its three derived views evaluated
compare(l, r) ==
    LET entries == create(l, r)
    IN [entries |-> entries,
        left |-> leftOf(entries),
        right |-> rightOf(entries),
        both |-> bothOf(entries)]

NotCompared == [entries |-> <<>>, left |-> <<>>, right |-> <<>>, both |-> <<>>]

(***************************************************************************)
(* src/unnamed/part_001: the configuration tables.  Each table is cut down *)
(* to a few entries that keep its shape: the base table names every       *)
(* dependency with a version range ('@google/clasp@^2.5.0'), the Angular   *)
(* table mixes bare names ('@google/clasp', 'fs-extra') with ranges        *)
(* ('eslint@^8.36.0'), the Svelte table is the base table plus             *)
(* 'fs-extra@^11.1.0'.  scripts is Object.entries order: <<name, command>>.*)
(* filesCopy and filesMerge are in Object.keys order: <<template, target>>.*)
(***************************************************************************)
config ==
    [dependencies |-> <<"clasp@^2.5.0", "eslint@^9.38.0">>,
     scripts |-> << <<"lint", "eslint --fix">>, <<"test", "vitest run">> >>,
     filesCopy |-> << <<".editorconfig", ".editorconfig">>,
                      <<"tsconfig.json", "tsconfig.json">> >>,
     filesMerge |-> << <<"dist/.gitignore-target", ".gitignore">> >>]

configForAngular ==
    [dependencies |-> <<"clasp", "eslint@^8.36.0", "fs-extra">>,
     scripts |-> << <<"preinstall", "ng new">>, <<"lint", "eslint --fix">>,
                    <<"test", "jest">> >>,
     filesCopy |-> << <<".editorconfig", ".editorconfig">>,
                      <<"deploy-ui.mjs", "deploy-ui.mjs">>,
                      <<"tsconfig.json", "tsconfig.json">> >>,
     filesMerge |-> << <<"dist/.gitignore-target", ".gitignore">> >>]

configForSvelte ==
    [dependencies |-> config.dependencies \o <<"fs-extra@^11.1.0">>,
     scripts |-> config.scripts \o << <<"preinstall", "node setup-svelte.mjs">> >>,
     filesCopy |-> config.filesCopy \o << <<"deploy-ui.mjs", "deploy-ui.mjs">> >>,
     filesMerge |-> config.filesMerge]

ConfigTables == {config, configForAngular, configForSvelte}

\* the package names a manifest declares
PackageNames == {"clasp", "eslint", "fs-extra"}

\* the name under which the installer records a requested package: the
\* request without its version range
PackageName(request) ==
    CASE request \in {"clasp", "clasp@^2.5.0"} -> "clasp"
      [] request \in {"eslint", "eslint@^9.38.0", "eslint@^8.36.0"} -> "eslint"
      [] request \in {"fs-extra", "fs-extra@^11.1.0"} -> "fs-extra"

(***************************************************************************)
(* src/unnamed/part_000: PackageHelper                                     *)
(***************************************************************************)
\* the JavaScript value undefined, where a string (a sequence of characters)
\* is expected
Undefined == <<"undefined">>

LowerLetters ==
    <<"a", "b", "c", "d", "e", "f", "g", "h", "i", "j", "k", "l", "m",
      "n", "o", "p", "q", "r", "s", "t", "u", "v", "w", "x", "y", "z">>
UpperLetters ==
    <<"A", "B", "C", "D", "E", "F", "G", "H", "I", "J", "K", "L", "M",
      "N", "O", "P", "Q", "R", "S", "T", "U", "V", "W", "X", "Y", "Z">>
LowerCase == Range(LowerLetters)
UpperCase == Range(UpperLetters)
WhiteSpaceOrUnderscore == {" ", "_"}

\* a mutant of ToLower: the case of a character is kept
ToLowerKeepsCase(ch) == ch

\* String.prototype.toLowerCase on one character
ToLower(ch) ==
    IF ch \in UpperCase
    THEN LowerLetters[CHOOSE i \in 1..Len(UpperLetters) : UpperLetters[i] = ch]
    ELSE ch

\* .replace(/([a-z])([A-Z])/g, '$1-$2')
RECURSIVE CamelToDash(_)
CamelToDash(s) ==
    IF Len(s) < 2 THEN s
    ELSE IF s[1] \in LowerCase /\ s[2] \in UpperCase
         THEN <<s[1], "-">> \o CamelToDash(Tail(s))
         ELSE <<s[1]>> \o CamelToDash(Tail(s))

\* .replace(/[\s_]+/g, '-')
RECURSIVE SpacesToDash(_)
SpacesToDash(s) ==
    IF s = <<>> THEN <<>>
    ELSE IF s[1] \in WhiteSpaceOrUnderscore
         THEN IF Len(s) >= 2 /\ s[2] \in WhiteSpaceOrUnderscore
              THEN SpacesToDash(Tail(s))
              ELSE <<"-">> \o SpacesToDash(Tail(s))
         ELSE <<s[1]>> \o SpacesToDash(Tail(s))

\* toPackageName(name): name?.replace(...).replace(...).toLowerCase()
toPackageName(name) ==
    IF name = Undefined THEN Undefined
    ELSE LET dashed == SpacesToDash(CamelToDash(name))
         IN [i \in 1..Len(dashed) |-> ToLower(dashed[i])]

DEFAULT_PACKAGE_JSON_CONTENT ==
    [name |-> <<>>,
     version |-> "0.0.0",
     description |-> "",
     main |-> "build/index.js",
     license |-> "Apache-2.0",
     keywords |-> <<>>,
     scripts |-> <<>>,
     engines |-> [node |-> ">=12"]]

\* JSON.parse(JSON.stringify(value)) of an object: a property whose value is
\* undefined is not serialised
JsonRoundTrip(object) ==
    LET kept == {k \in DOMAIN object : ~(k = "name" /\ object[k] = Undefined)}
    IN [k \in kept |-> object[k]]

\* { ...object, [key]: value }
WithProperty(object, key, value) ==
    [k \in DOMAIN object \cup {key} |-> IF k = key THEN value ELSE object[k]]

\* PackageHelper.getContent()
getContent(c) == JsonRoundTrip(c)

\* PackageHelper.getScripts(): this.getContent().scripts ?? {}
getScripts(c) ==
    IF "scripts" \in DOMAIN getContent(c) THEN getContent(c).scripts ELSE <<>>

\* a mutant of getDependencyPackages: devDependencies are never included
getDependencyPackagesWithoutDev(c, includeDevDependencies) ==
    IF "dependencies" \in DOMAIN JsonRoundTrip(c)
    THEN JsonRoundTrip(c).dependencies ELSE <<>>

\* Object.keys of PackageHelper.getDependencies(includeDevDependencies):
\* the keys of dependencies, then the keys only devDependencies has
getDependencyPackages(c, includeDevDependencies) ==
    LET snapshot == getContent(c)
        dependencies == IF "dependencies" \in DOMAIN snapshot
                        THEN snapshot.dependencies ELSE <<>>
        devDependencies == IF "devDependencies" \in DOMAIN snapshot
                           THEN snapshot.devDependencies ELSE <<>>
    IN IF includeDevDependencies
       THEN NewSet(dependencies \o devDependencies)
       ELSE dependencies

\* a mutant of updateScript: the content is rebuilt around the scripts
updateScriptDropsFields(c, name, script) ==
    [scripts |-> WithProperty(getScripts(c), name, script)]

\* PackageHelper.updateScript(name, script): the new this.content
updateScript(c, name, script) ==
    LET initialised == IF "scripts" \in DOMAIN c THEN c
                       ELSE WithProperty(c, "scripts", <<>>)
    IN WithProperty(initialised, "scripts",
                    WithProperty(getScripts(initialised), name, script))

\* PackageHelper.updateName(name): the new this.content (the return value is
\* its name)
updateName(c, name) == WithProperty(c, "name", toPackageName(name))

(***************************************************************************)
(* The getters, with the identity of what they return.  value is the       *)
(* returned value; shares tells which object of the helper the caller now  *)
(* holds a reference to: "nothing" (the value was built anew), "content"   *)
(* (this.content itself), "nested" (a new top-level object whose nested    *)
(* objects are the helper's), "scripts" or "dependencies" (that nested     *)
(* object of this.content).                                                *)
(***************************************************************************)
\* a mutant of getContentSnapshot: this.content itself is handed out
getContentSnapshotByReference(c) == [value |-> c, shares |-> "content"]

\* getContent(): JSON.parse builds a new object graph
getContentSnapshot(c) == [value |-> getContent(c), shares |-> "nothing"]

\* getScripts(): this.getContent().scripts ?? {}
getScriptsSnapshot(c) ==
    LET snapshot == getContentSnapshot(c)
    IN IF "scripts" \in DOMAIN snapshot.value
       THEN [value |-> snapshot.value.scripts,
             shares |-> IF snapshot.shares = "nothing" THEN "nothing"
                        ELSE "scripts"]
       ELSE [value |-> <<>>, shares |-> "nothing"]

\* getDependencies(includeDevDependencies): content.dependencies ?? {} of the
\* snapshot, or a new object spread from both tables; the value is the
\* sequence of its keys
getDependenciesSnapshot(c, includeDevDependencies) ==
    LET snapshot == getContentSnapshot(c)
    IN [value |-> getDependencyPackages(snapshot.value, includeDevDependencies),
        shares |-> IF includeDevDependencies \/ snapshot.shares = "nothing"
                      \/ "dependencies" \notin DOMAIN snapshot.value
                   THEN "nothing" ELSE "dependencies"]
(***************************************************************************)
(* The file system and the external installer, as the helper sees them.    *)
(***************************************************************************)
NoFile == [state |-> "absent", json |-> <<>>]
Unreadable == [state |-> "unreadable", json |-> <<>>]
File(json) == [state |-> "file", json |-> json]

\* fs.readJsonSync(path): the parsed file, or the error it throws
readJsonSync(d) ==
    CASE d.state = "absent" ->
           [threw |-> TRUE, code |-> "ENOENT", message |-> "ENOENT: no such file",
            value |-> <<>>]
      [] d.state = "unreadable" ->
           [threw |-> TRUE, code |-> "NONE", message |-> "Unexpected token",
            value |-> <<>>]
      [] d.state = "file" ->
           [threw |-> FALSE, code |-> "NONE", message |-> "", value |-> d.json]

\* a mutant of load: every read error is taken for a missing file
loadSwallowsErrors(d) ==
    LET read == readJsonSync(d)
    IN IF ~read.threw
       THEN [threw |-> FALSE, message |-> "", helper |-> TRUE, content |-> read.value]
       ELSE [threw |-> FALSE, message |-> "", helper |-> FALSE, content |-> <<>>]

\* PackageHelper.load(path): helper = FALSE stands for the return value undefined
load(d) ==
    LET read == readJsonSync(d)
    IN IF ~read.threw
       THEN [threw |-> FALSE, message |-> "", helper |-> TRUE, content |-> read.value]
       ELSE IF read.code = "ENOENT"
       THEN [threw |-> FALSE, message |-> "", helper |-> FALSE, content |-> <<>>]
       ELSE [threw |-> TRUE, message |-> read.message, helper |-> FALSE,
             content |-> <<>>]

\* PackageHelper.init(name): new PackageHelper({...DEFAULT, name: toPackageName(name)})
init(name) == WithProperty(DEFAULT_PACKAGE_JSON_CONTENT, "name", toPackageName(name))

\* PackageHelper.save(): the file after writeFileAtomic(path, JSON.stringify(content))
save(c) == File(JsonRoundTrip(c))

\* what spawn.sync('npm', ['install', ...args]) can leave behind: the
\* captured error stream and the manifest on disk.  The installer is an
\* external process.  Whatever it prints, the manifest may be untouched, gone,
\* unreadable, or have the requested packages recorded under their names;
\* when it prints nothing the manifest may also carry any other dependency
\* table.
NpmStderr == {"", "npm ERR! code E404"}

ManifestOf(d) == IF d.state = "file" THEN d.json ELSE <<>>

RECURSIVE PackageNamesOf(_)
PackageNamesOf(args) ==
    IF args = <<>> THEN <<>>
    ELSE <<PackageName(Head(args))>> \o PackageNamesOf(Tail(args))

NpmRecorded(d, args) ==
    LET declared == IF "dependencies" \in DOMAIN ManifestOf(d)
                    THEN ManifestOf(d).dependencies ELSE <<>>
    IN File(WithProperty(ManifestOf(d), "dependencies",
                         NewSet(declared \o PackageNamesOf(args))))

NpmManifests(d) ==
    {File(WithProperty(ManifestOf(d), "dependencies", deps)) :
        deps \in DistinctSeqsUpTo(PackageNames, Cardinality(PackageNames))}

NpmOutcomes(d, args) ==
    [stderr : NpmStderr, disk : {d, NoFile, Unreadable, NpmRecorded(d, args)}]
        \cup [stderr : {""}, disk : NpmManifests(d)]

NoResult == [requested |-> <<>>, resolved |-> <<>>, installed |-> <<>>]

\* a mutant of PackagesToInstall: the wrong side of the comparison is taken
PackagesToInstallLeft(c, packages) ==
    leftOf(create(getDependencyPackages(c, TRUE), packages))

\* installPackages: compare(this.getDependencyPackages(true), packages).right
PackagesToInstall(c, packages) ==
    rightOf(create(getDependencyPackages(c, TRUE), packages))

\* a mutant of InstallerFailed: the error stream is never looked at
InstallerFailedNever(executionResult) == FALSE

\* installPackages: if (executionResult.stderr)
InstallerFailed(executionResult) == executionResult.stderr # ""

\* a mutant of Reloaded: the helper keeps the content it had
ReloadedKeepsOld(c, packageJsonOnDisk) == c

\* installPackages: this.content = packageJsonOnDisk.getContent()
Reloaded(c, packageJsonOnDisk) == getContent(packageJsonOnDisk.content)

\* PackageHelper.installPackages(packages), with npm the outcome of the
\* installer should it be invoked: the helper's content and the disk
\* afterwards, the installer invocations, and the return value or the throw
installPackages(c, d, packages, npm) ==
    LET packagesToInstall == PackagesToInstall(c, packages)
        executionResult == [args |-> packagesToInstall, stderr |-> npm.stderr]
        packageJsonOnDisk == load(npm.disk)
        packageDiff ==
            create(getDependencyPackages(c, TRUE),
                   getDependencyPackages(packageJsonOnDisk.content, TRUE))
    IN IF Len(packagesToInstall) = 0
       THEN [content |-> c, disk |-> d, spawned |-> <<>>, threw |-> FALSE,
             message |-> "",
             value |-> [requested |-> packages, resolved |-> packages,
                        installed |-> <<>>]]
       ELSE IF InstallerFailed(executionResult)
       THEN [content |-> c, disk |-> npm.disk, spawned |-> <<executionResult>>,
             threw |-> TRUE, message |-> executionResult.stderr,
             value |-> NoResult]
       ELSE IF packageJsonOnDisk.threw
       THEN [content |-> c, disk |-> npm.disk, spawned |-> <<executionResult>>,
             threw |-> TRUE, message |-> packageJsonOnDisk.message,
             value |-> NoResult]
       ELSE IF ~packageJsonOnDisk.helper
       THEN [content |-> c, disk |-> npm.disk, spawned |-> <<executionResult>>,
             threw |-> TRUE, message |-> "Cannot find package.json",
             value |-> NoResult]
       ELSE [content |-> Reloaded(c, packageJsonOnDisk),
             disk |-> npm.disk, spawned |-> <<executionResult>>,
             threw |-> FALSE, message |-> "",
             value |-> [requested |-> packages,
                        resolved |-> bothOf(packageDiff),
                        installed |-> rightOf(packageDiff)]]

(***************************************************************************)
(* The states a run can start from.                                        *)
(***************************************************************************)
\* an optional property: <<>> when the key is absent, <<value>> when present
Optional(S) == {<<>>} \cup {<<v>> : v \in S}

\* the object { scripts?, dependencies?, devDependencies? }
Manifest(scripts, dependencies, devDependencies) ==
    LET keys == (IF scripts = <<>> THEN {} ELSE {"scripts"})
                \cup (IF dependencies = <<>> THEN {} ELSE {"dependencies"})
                \cup (IF devDependencies = <<>> THEN {} ELSE {"devDependencies"})
    IN [k \in keys |->
           CASE k = "scripts" -> scripts[1]
             [] k = "dependencies" -> dependencies[1]
             [] k = "devDependencies" -> devDependencies[1]]

\* manifests that differ in their dependency tables
DependencyManifests ==
    {Manifest(<<>>, d, v) :
        d \in Optional(DistinctSeqsUpTo(PackageNames, MaxDeps)),
        v \in Optional(DistinctSeqsUpTo(PackageNames, MaxDev))}

\* the package lists given to installPackages: the configured tables and
\* short ad-hoc lists, duplicates included
Requests ==
    {t.dependencies : t \in ConfigTables}
        \cup SeqsUpTo({"clasp", "eslint"}, MaxReq)

NoCall == [op |-> "none", args |-> <<>>, threw |-> FALSE, message |-> "",
           value |-> <<>>]
\* no getter has returned yet; no config file has been handled yet
NotReturned == [op |-> "none", value |-> <<>>, shares |-> "nothing", writes |-> 0]
\* what is at a path: the whole of a content, or its first pieces only
OnDisk(value, whole, pieces) ==
    [whole |-> whole, of |-> value, pieces |-> pieces]

\* no write is under way
NoWrite ==
    [phase |-> "none", path |-> "", previous |-> <<>>, data |-> <<>>,
     pieces |-> 0, temporary |-> 0, onDisk |-> OnDisk(<<>>, TRUE, 0)]

\* no template item has been handled yet
NoTree == [op |-> "none", item |-> "", template |-> <<>>, target |-> <<>>,
           found |-> "nothing", threw |-> FALSE, copied |-> FALSE,
           result |-> <<>>]

\* src/src/clasp-helper.ts: the paths the helper removes, writes and moves,
\* and what can be at them
ClaspPaths ==
    {".clasp.json", ".clasp-dev.json", ".clasp-prod.json", "appsscript.json",
     "dist/.clasp.json", "dist/appsscript.json"}
Absent == [kind |-> "absent", scriptId |-> ""]
Previous == [kind |-> "previous", scriptId |-> ""]
Created == [kind |-> "created", scriptId |-> "new"]
AppsScriptManifest == [kind |-> "manifest", scriptId |-> ""]

\* the credentials file and the deployment files as handleClasp finds them;
\* nothing has been run, asked for or started yet
Deployment(credentials, found) ==
    [credentials |-> credentials, found |-> found, at |-> found, ran |-> <<>>,
     scriptIdDev |-> "", scriptIdProd |-> "", arrange |-> "none",
     write |-> "none", returned |-> "no", unhandled |-> FALSE]

\* handleClasp has not begun
NoDeploy == Deployment(TRUE, [path \in ClaspPaths |-> Absent])
NoFiles == [op |-> "none", filename |-> "", source |-> <<>>, target |-> <<>>,
            threw |-> FALSE, asked |-> FALSE, answer |-> FALSE, prompts |-> 0,
            written |-> FALSE, text |-> <<>>]

NoOptions == [yes |-> FALSE, no |-> FALSE, title |-> <<>>, ui |-> FALSE,
              uiFramework |-> "undefined"]

(***************************************************************************)
(* Specification SpecCompare: compare() on every pair of short inputs.     *)
(***************************************************************************)
InitCompare ==
    /\ left \in SeqsUpTo(1..MaxElem, MaxLen)
    /\ right \in SeqsUpTo(1..MaxElem, MaxLen)
    /\ comparison = NotCompared
    /\ swapped = NotCompared
    /\ pc = "compare"
    /\ disk = NoFile
    /\ content = <<>>
    /\ options = NoOptions
    /\ CONFIG = config
    /\ needsSave = FALSE
    /\ index = 0
    /\ existingScripts = <<>>
    /\ before = <<>>
    /\ call = NoCall
    /\ spawned = <<>>
    /\ asked = <<>>
    /\ prompted = 0
    /\ saves = 0
    /\ returned = NotReturned
    /\ files = NoFiles
    /\ tree = NoTree
    /\ atomic = NoWrite
    /\ deploy = NoDeploy

\* compare(left, right)
Compare ==
    /\ pc = "compare"
    /\ comparison' = compare(left, right)
    /\ pc' = "compared"
    /\ UNCHANGED moreVars
    /\ UNCHANGED <<left, right, swapped, disk, content, options, CONFIG,
                   needsSave, index, existingScripts, before, call, spawned, asked, prompted,
                   saves>>

\* compare(right, left)
CompareSwapped ==
    /\ pc = "compared"
    /\ swapped' = compare(right, left)
    /\ pc' = "swapped"
    /\ UNCHANGED moreVars
    /\ UNCHANGED <<left, right, comparison, disk, content, options, CONFIG,
                   needsSave, index, existingScripts, before, call, spawned, asked, prompted,
                   saves>>

NextCompare == Compare \/ CompareSwapped

SpecCompare == InitCompare /\ [][NextCompare]_vars

(***************************************************************************)
(* Specification Spec, first part: a caller of PackageHelper.  The helper  *)
(* was built from a manifest; the file it came from is still on disk, or   *)
(* is missing, or cannot be read.                                          *)
(***************************************************************************)
InitPackage ==
    /\ content \in DependencyManifests
    /\ disk \in {NoFile, Unreadable, File(content)}
    /\ pc = "ready"
    /\ left = <<>>
    /\ right = <<>>
    /\ comparison = NotCompared
    /\ swapped = NotCompared
    /\ options = NoOptions
    /\ CONFIG = config
    /\ needsSave = FALSE
    /\ index = 0
    /\ existingScripts = <<>>
    /\ before = content
    /\ call = NoCall
    /\ spawned = <<>>
    /\ asked = <<>>
    /\ prompted = 0
    /\ saves = 0
    /\ returned = NotReturned
    /\ files = NoFiles
    /\ tree = NoTree
    /\ atomic = NoWrite
    /\ deploy = NoDeploy

\* const helper = PackageHelper.load(); the caller goes on with the helper
\* it got, if any
Load ==
    /\ pc = "ready"
    /\ LET loaded == load(disk)
       IN /\ call' = [op |-> "load", args |-> <<>>, threw |-> loaded.threw,
                      message |-> loaded.message,
                      value |-> [helper |-> loaded.helper,
                                 content |-> loaded.content]]
          /\ content' = IF loaded.helper THEN loaded.content ELSE content
    /\ before' = content
    /\ spawned' = <<>>
    /\ UNCHANGED moreVars
    /\ UNCHANGED <<left, right, comparison, swapped, disk, options, CONFIG, pc,
                   needsSave, index, existingScripts, asked, prompted, saves>>

\* await helper.save()
Save ==
    /\ pc = "ready"
    /\ saves = 0
    /\ disk' = save(content)
    /\ saves' = saves + 1
    /\ call' = [op |-> "save", args |-> <<>>, threw |-> FALSE, message |-> "",
                value |-> <<>>]
    /\ before' = content
    /\ spawned' = <<>>
    /\ UNCHANGED moreVars
    /\ UNCHANGED <<left, right, comparison, swapped, content, options, CONFIG,
                   pc, needsSave, index, existingScripts, asked, prompted>>

\* helper.installPackages(packages)
InstallPackages ==
    /\ pc = "ready"
    /\ \E packages \in Requests :
       \E npm \in NpmOutcomes(disk, PackagesToInstall(content, packages)) :
         LET done == installPackages(content, disk, packages, npm)
         IN /\ content' = done.content
            /\ disk' = done.disk
            /\ spawned' = done.spawned
            /\ call' = [op |-> "installPackages", args |-> packages,
                        threw |-> done.threw, message |-> done.message,
                        value |-> done.value]
    /\ before' = content
    /\ pc' = "installed"
    /\ UNCHANGED moreVars
    /\ UNCHANGED <<left, right, comparison, swapped, options, CONFIG, needsSave,
                   index, existingScripts, asked, prompted, saves>>

\* helper.installPackages(packages) once more, with the packages of the
\* call that has just returned
RepeatInstallPackages ==
    /\ pc = "installed"
    /\ call.op = "installPackages"
    /\ ~call.threw
    /\ \E npm \in NpmOutcomes(disk, PackagesToInstall(content, call.args)) :
         LET done == installPackages(content, disk, call.args, npm)
         IN /\ content' = done.content
            /\ disk' = done.disk
            /\ spawned' = done.spawned
            /\ call' = [op |-> "installPackages", args |-> call.args,
                        threw |-> done.threw, message |-> done.message,
                        value |-> done.value]
    /\ before' = content
    /\ pc' = "repeated"
    /\ UNCHANGED moreVars
    /\ UNCHANGED <<left, right, comparison, swapped, options, CONFIG, needsSave,
                   index, existingScripts, asked, prompted, saves>>

(***************************************************************************)
(* Specification Spec, second part: a run of init() up to the end of       *)
(* handlePackageJson (src/src/app.ts).                                     *)
(***************************************************************************)
\* the titles a run can be given: on the command line, or typed at the prompt
FlagTitle == <<"M", "y", "A", "p", "p">>
TypedTitle == <<"M", "y", " ", "A", "p", "p">>
DefaultTitle == <<"U", "n", "t", "i", "t", "l", "e", "d">>

ScriptNames == {"lint", "test", "start"}
ScriptCommands == {"eslint --fix", "vitest run", "mocha"}

\* the scripts objects a manifest on disk can start with
ScriptObjects ==
    UNION {[names -> ScriptCommands] :
              names \in {n \in SUBSET ScriptNames : Cardinality(n) <= MaxScripts}}

\* the last ones also carry a field the tool knows nothing about
RunManifests ==
    {Manifest(s, d, <<>>) :
        s \in Optional(ScriptObjects),
        d \in Optional({<<"clasp", "eslint">>, configForAngular.dependencies})}
    \cup {WithProperty(Manifest(s, <<>>, <<>>), "author", "someone") :
             s \in Optional(ScriptObjects)}

NoConfig == [dependencies |-> <<>>, scripts |-> <<>>, filesCopy |-> <<>>,
             filesMerge |-> <<>>]

InitRun ==
    /\ options \in [yes : BOOLEAN, no : BOOLEAN, title : {Undefined, FlagTitle},
                     ui : {FALSE}, uiFramework : {"undefined"}]
    /\ disk \in {NoFile, Unreadable} \cup {File(m) : m \in RunManifests}
    /\ pc = "title"
    /\ content = <<>>
    /\ CONFIG = NoConfig
    /\ left = <<>>
    /\ right = <<>>
    /\ comparison = NotCompared
    /\ swapped = NotCompared
    /\ needsSave = FALSE
    /\ index = 0
    /\ existingScripts = <<>>
    /\ before = <<>>
    /\ call = NoCall
    /\ spawned = <<>>
    /\ asked = <<>>
    /\ prompted = 0
    /\ saves = 0
    /\ returned = NotReturned
    /\ files = NoFiles
    /\ tree = NoTree
    /\ atomic = NoWrite
    /\ deploy = NoDeploy

\* queryText(message, defaultVal, options) when the prompt, if shown, is
\* answered with typed
queryText(defaultVal, opts, typed) ==
    IF opts.yes THEN [answer |-> defaultVal, prompts |-> 0]
    ELSE [answer |-> typed, prompts |-> 1]

\* query(message, question, defaultVal, options) when the prompt, if shown,
\* is answered with toggled
query(opts, toggled) ==
    IF opts.yes THEN [answer |-> TRUE, prompts |-> 0]
    ELSE IF opts.no THEN [answer |-> FALSE, prompts |-> 0]
    ELSE [answer |-> toggled, prompts |-> 1]

\* a mutant of querySelect: assume-yes selects no UI
querySelectNoneUnderYes(opts, selected) ==
    IF opts.yes \/ opts.no THEN [answer |-> "none", prompts |-> 0]
    ELSE [answer |-> selected, prompts |-> 1]

\* querySelect(message, choices, defaultVal, options) when the prompt, if
\* shown, is answered with selected
querySelect(opts, selected) ==
    IF opts.yes THEN [answer |-> "angular", prompts |-> 0]
    ELSE IF opts.no THEN [answer |-> "none", prompts |-> 0]
    ELSE [answer |-> selected, prompts |-> 1]

\* init(): const projectTitle = flags.title ?? (await queryText(...))
DetermineTitle ==
    /\ pc = "title"
    /\ \E typed \in {TypedTitle, DefaultTitle, Undefined} :
         LET q == IF options.title # Undefined
                  THEN [answer |-> options.title, prompts |-> 0]
                  ELSE queryText(DefaultTitle, options, typed)
         IN /\ options' = [options EXCEPT !.title = q.answer]
            /\ prompted' = prompted + q.prompts
    /\ pc' = "ui"
    /\ UNCHANGED moreVars
    /\ UNCHANGED <<compareVars, disk, content, CONFIG, needsSave, index,
                   existingScripts, before, call, spawned, asked, saves>>

\* init(): const uiFramework = await querySelect(...); CONFIG = ...
SelectUi ==
    /\ pc = "ui"
    /\ \E selected \in {"none", "angular", "svelte"} :
         LET q == querySelect(options, selected)
         IN /\ CONFIG' = CASE q.answer = "angular" -> configForAngular
                            [] q.answer = "svelte" -> configForSvelte
                            [] OTHER -> config
            /\ options' = CASE q.answer = "angular" ->
                                [options EXCEPT !.ui = TRUE,
                                                !.uiFramework = "angular"]
                             [] q.answer = "svelte" ->
                                [options EXCEPT !.ui = TRUE,
                                                !.uiFramework = "svelte"]
                             [] OTHER -> [options EXCEPT !.ui = FALSE]
            /\ prompted' = prompted + q.prompts
    /\ pc' = "load"
    /\ UNCHANGED moreVars
    /\ UNCHANGED <<compareVars, disk, content, needsSave, index,
                   existingScripts, before, call, spawned, asked, saves>>

\* handlePackageJson: let packageJson = PackageHelper.load(); without a
\* manifest the run goes on to ask whether to generate one, with a manifest
\* it takes the snapshot of its scripts
LoadManifest ==
    /\ pc = "load"
    /\ LET loaded == load(disk)
       IN /\ call' = [op |-> "load", args |-> <<>>, threw |-> loaded.threw,
                      message |-> loaded.message,
                      value |-> [helper |-> loaded.helper,
                                 content |-> loaded.content]]
          /\ content' = loaded.content
          /\ existingScripts' = getScripts(loaded.content)
          /\ pc' = IF loaded.threw THEN "failed"
                    ELSE IF loaded.helper THEN "scripts" ELSE "generate"
    /\ needsSave' = FALSE
    /\ index' = 1
    /\ before' = content
    /\ spawned' = <<>>
    /\ UNCHANGED moreVars
    /\ UNCHANGED <<compareVars, disk, options, CONFIG, asked, prompted, saves>>

\* a mutant of Generate: the default manifest is made whatever the answer
GenerateAlwaysInit ==
    /\ pc = "generate"
    /\ \E toggled \in BOOLEAN :
         LET q == query(options, toggled)
         IN /\ content' = init(options.title)
            /\ existingScripts' = getScripts(init(options.title))
            /\ asked' = Append(asked, [question |-> "Generate package.json?",
                                        name |-> "", current |-> "",
                                        desired |-> "", answer |-> q.answer])
            /\ prompted' = prompted + q.prompts
    /\ needsSave' = TRUE
    /\ pc' = "scripts"
    /\ UNCHANGED <<compareVars, disk, options, CONFIG, index, before, call,
                   spawned, saves, moreVars>>

\* handlePackageJson: const init = await query('', 'Generate package.json?',
\* true, options); PackageHelper.init(options.title) or new PackageHelper()
Generate ==
    /\ pc = "generate"
    /\ \E toggled \in BOOLEAN :
         LET q == query(options, toggled)
             made == IF q.answer THEN init(options.title) ELSE <<>>
         IN /\ content' = made
            /\ existingScripts' = getScripts(made)
            /\ asked' = Append(asked, [question |-> "Generate package.json?",
                                        name |-> "", current |-> "",
                                        desired |-> "", answer |-> q.answer])
            /\ prompted' = prompted + q.prompts
    /\ needsSave' = TRUE
    /\ pc' = "scripts"
    /\ UNCHANGED moreVars
    /\ UNCHANGED <<compareVars, disk, options, CONFIG, index, before, call,
                   spawned, saves>>

\* a mutant of the loop body: a conflicting script is replaced without asking
SyncScriptNeverAsks(c, existing, dirty, entry, opts, toggled) ==
    [content |-> updateScript(c, entry[1], entry[2]), needsSave |-> TRUE,
     asked |-> <<>>, prompts |-> 0]

\* handlePackageJson: one iteration of for (const [name, script] of
\* Object.entries(CONFIG.scripts)), the conflict prompt, if shown, being
\* answered with toggled
SyncScript(c, existing, dirty, entry, opts, toggled) ==
    LET name == entry[1]
        script == entry[2]
    IN IF name \in DOMAIN existing /\ existing[name] # script
       THEN LET q == query(opts, toggled)
            IN [content |-> IF q.answer THEN updateScript(c, name, script) ELSE c,
                needsSave |-> IF q.answer THEN TRUE ELSE dirty,
                asked |-> <<[question |-> "Replace", name |-> name,
                             current |-> existing[name], desired |-> script,
                             answer |-> q.answer]>>,
                prompts |-> q.prompts]
       ELSE [content |-> updateScript(c, name, script), needsSave |-> TRUE,
             asked |-> <<>>, prompts |-> 0]

SynchronizeScript ==
    /\ pc = "scripts"
    /\ index <= Len(CONFIG.scripts)
    /\ \E toggled \in BOOLEAN :
         LET step == SyncScript(content, existingScripts, needsSave,
                                CONFIG.scripts[index], options, toggled)
         IN /\ content' = step.content
            /\ needsSave' = step.needsSave
            /\ asked' = asked \o step.asked
            /\ prompted' = prompted + step.prompts
    /\ before' = content
    /\ index' = index + 1
    /\ UNCHANGED moreVars
    /\ UNCHANGED <<compareVars, disk, options, CONFIG, pc, existingScripts, call,
                   spawned, saves>>

\* a mutant of SaveIfChanged: the manifest is not written
SaveIfChangedSkips ==
    /\ pc = "scripts"
    /\ index > Len(CONFIG.scripts)
    /\ pc' = "install"
    /\ UNCHANGED <<compareVars, disk, content, options, CONFIG, needsSave, index,
                   existingScripts, before, call, spawned, asked, prompted,
                   saves, moreVars>>

\* handlePackageJson: if (needsSave) await packageJson.save()
SaveIfChanged ==
    /\ pc = "scripts"
    /\ index > Len(CONFIG.scripts)
    /\ disk' = IF needsSave THEN save(content) ELSE disk
    /\ saves' = IF needsSave THEN saves + 1 ELSE saves
    /\ call' = IF needsSave
               THEN [op |-> "save", args |-> <<>>, threw |-> FALSE,
                     message |-> "", value |-> <<>>]
               ELSE call
    /\ pc' = "install"
    /\ UNCHANGED moreVars
    /\ UNCHANGED <<compareVars, content, options, CONFIG, needsSave, index,
                   existingScripts, before, spawned, asked, prompted>>

\* handlePackageJson: packageJson.installPackages(CONFIG.dependencies); when
\* it returns init() goes on to handleConfigCopy, and when it throws the
\* rejection leaves init() for the catch of run(), which prints its message
InstallDependencies ==
    /\ pc = "install"
    /\ \E npm \in NpmOutcomes(disk,
                               PackagesToInstall(content, CONFIG.dependencies)) :
         LET done == installPackages(content, disk, CONFIG.dependencies, npm)
         IN /\ content' = done.content
            /\ disk' = done.disk
            /\ spawned' = done.spawned
            /\ call' = [op |-> "installPackages", args |-> CONFIG.dependencies,
                        threw |-> done.threw, message |-> done.message,
                        value |-> done.value]
            /\ pc' = IF done.threw THEN "failed" ELSE "copy"
    /\ before' = content
    /\ index' = 1
    /\ UNCHANGED moreVars
    /\ UNCHANGED <<compareVars, options, CONFIG, needsSave,
                   existingScripts, asked, prompted, saves>>

Next ==
    \/ Load
    \/ Save
    \/ InstallPackages
    \/ DetermineTitle
    \/ SelectUi
    \/ LoadManifest
    \/ Generate
    \/ SynchronizeScript
    \/ SaveIfChanged
    \/ InstallDependencies

Init == InitPackage \/ InitRun

Spec == Init /\ [][Next]_vars

NextRepeat == Next \/ RepeatInstallPackages

SpecRepeat == Init /\ [][NextRepeat]_vars

(***************************************************************************)
(* src/src/app.ts: handleConfigCopy and handleConfigMerge.  The text of a  *)
(* file is a sequence of characters, "\n" being the line feed.             *)
(***************************************************************************)
\* a path that cannot be read for another reason than its absence
Denied == <<"EACCES">>

\* readFile(path): the text, undefined for a missing file (ENOENT), a throw
\* otherwise
readFile(file) ==
    IF file = Denied
    THEN [threw |-> TRUE, message |-> "Unknown error reading", value |-> Undefined]
    ELSE [threw |-> FALSE, message |-> "", value |-> file]

\* text.split('\n')
RECURSIVE Split(_)
Split(text) ==
    IF \A i \in 1..Len(text) : text[i] # "\n" THEN <<text>>
    ELSE LET at == CHOOSE i \in 1..Len(text) :
                       text[i] = "\n" /\ \A j \in 1..(i - 1) : text[j] # "\n"
         IN <<SubSeq(text, 1, at - 1)>> \o Split(SubSeq(text, at + 1, Len(text)))

\* lines.join('\n')
RECURSIVE Join(_)
Join(lines) ==
    IF lines = <<>> THEN <<>>
    ELSE IF Len(lines) = 1 THEN lines[1]
    ELSE lines[1] \o <<"\n">> \o Join(Tail(lines))

\* lines.filter(item => item): the empty string is falsy
RECURSIVE Truthy(_)
Truthy(lines) ==
    IF lines = <<>> THEN <<>>
    ELSE IF Head(lines) = <<>> THEN Truthy(Tail(lines))
    ELSE <<Head(lines)>> \o Truthy(Tail(lines))

\* a mutant of MissingLines: a line is taken at most once
RECURSIVE MissingLinesOnce(_, _)
MissingLinesOnce(sourceLines, targetLines) ==
    IF sourceLines = <<>> THEN <<>>
    ELSE IF Head(sourceLines) \in Range(targetLines)
    THEN MissingLinesOnce(Tail(sourceLines), targetLines)
    ELSE <<Head(sourceLines)>>
             \o MissingLinesOnce(Tail(sourceLines),
                                 Append(targetLines, Head(sourceLines)))

\* sourceLines.filter(item => targetLines.indexOf(item) === -1)
RECURSIVE MissingLines(_, _)
MissingLines(sourceLines, targetLines) ==
    IF sourceLines = <<>> THEN <<>>
    ELSE IF Head(sourceLines) \in Range(targetLines)
    THEN MissingLines(Tail(sourceLines), targetLines)
    ELSE <<Head(sourceLines)>> \o MissingLines(Tail(sourceLines), targetLines)

\* a mutant of MergeConfirmed: the answer is not looked at
MergeConfirmedAlways(targetFile, writeFile) == TRUE

\* handleConfigMerge: the write is reached unless the target exists and the
\* Merge question was answered no
MergeConfirmed(targetFile, writeFile) == targetFile = Undefined \/ writeFile

\* nothing was done with a file, whose content is therefore what it was
Skipped(op, filename, source, target) ==
    [op |-> op, filename |-> filename, source |-> source, target |-> target,
     threw |-> FALSE, asked |-> FALSE, answer |-> FALSE, prompts |-> 0,
     written |-> FALSE, text |-> target]

\* a mutant of handleConfigMergeFile: an existing target is replaced by the
\* template
handleConfigMergeOverwrites(filename, source, target, opts, toggled) ==
    [Skipped("merge", filename, source, target) EXCEPT
       !.written = source # Undefined /\ source # Denied,
       !.text = IF source # Undefined /\ source # Denied THEN source ELSE target]

\* a mutant of handleConfigMergeFile: the text written does not end in a line
\* feed
handleConfigMergeNoLineFeed(filename, source, target, opts, toggled) ==
    LET sourceFile == readFile(source)
        targetFile == readFile(target)
        targetLines == IF targetFile.value = Undefined THEN <<>>
                       ELSE Split(targetFile.value)
        missingLines == IF sourceFile.value = Undefined THEN <<>>
                        ELSE MissingLines(Split(sourceFile.value), targetLines)
        q == query(opts, toggled)
        skipped == Skipped("merge", filename, source, target)
    IN IF sourceFile.threw \/ targetFile.threw
       THEN [skipped EXCEPT !.threw = TRUE]
       ELSE IF Len(missingLines) = 0 THEN skipped
       ELSE IF targetFile.value # Undefined /\ ~q.answer
       THEN [skipped EXCEPT !.asked = TRUE, !.answer = q.answer,
                            !.prompts = q.prompts]
       ELSE [skipped EXCEPT
               !.asked = targetFile.value # Undefined,
               !.answer = targetFile.value # Undefined /\ q.answer,
               !.prompts = IF targetFile.value # Undefined THEN q.prompts ELSE 0,
               !.written = TRUE,
               !.text = Join(Truthy(targetLines \o missingLines))]

\* handleConfigMerge: the body of the loop for one entry of CONFIG.filesMerge,
\* source and target being what is at the template's and the target's path;
\* the Merge question, if shown, is answered with toggled
handleConfigMergeFile(filename, source, target, opts, toggled) ==
    LET sourceFile == readFile(source)
        targetFile == readFile(target)
        targetLines == IF targetFile.value = Undefined THEN <<>>
                       ELSE Split(targetFile.value)
        missingLines == IF sourceFile.value = Undefined THEN <<>>
                        ELSE MissingLines(Split(sourceFile.value), targetLines)
        q == query(opts, toggled)
        skipped == Skipped("merge", filename, source, target)
    IN IF sourceFile.threw \/ targetFile.threw
       THEN [skipped EXCEPT !.threw = TRUE]
       ELSE IF Len(missingLines) = 0 THEN skipped
       ELSE IF targetFile.value # Undefined /\ ~MergeConfirmed(targetFile.value, q.answer)
       THEN [skipped EXCEPT !.asked = TRUE, !.answer = q.answer,
                            !.prompts = q.prompts]
       ELSE [skipped EXCEPT
               !.asked = targetFile.value # Undefined,
               !.answer = targetFile.value # Undefined /\ q.answer,
               !.prompts = IF targetFile.value # Undefined THEN q.prompts ELSE 0,
               !.written = TRUE,
               !.text = Join(Truthy(targetLines \o missingLines)) \o <<"\n">>]

\* handleConfigCopy: the body of the loop for one entry of CONFIG.filesCopy;
\* the Overwrite question, if shown, is answered with toggled.  An empty
\* target is falsy, like a missing one.
handleConfigCopyFile(filename, source, target, opts, toggled) ==
    LET sourceFile == readFile(source)
        targetFile == readFile(target)
        q == query(opts, toggled)
        asks == targetFile.value # Undefined /\ targetFile.value # <<>>
        writeFile == IF asks THEN q.answer ELSE TRUE
        skipped == Skipped("copy", filename, source, target)
    IN IF sourceFile.threw \/ targetFile.threw
       THEN [skipped EXCEPT !.threw = TRUE]
       ELSE IF sourceFile.value = targetFile.value \/ sourceFile.value = Undefined
       THEN skipped
       ELSE [skipped EXCEPT
               !.asked = asks,
               !.answer = asks /\ q.answer,
               !.prompts = IF asks THEN q.prompts ELSE 0,
               !.written = writeFile,
               !.text = IF writeFile THEN sourceFile.value ELSE target]

(***************************************************************************)
(* Specifications SpecCopy and SpecMerge: init() from its call of          *)
(* handleConfigCopy, and of handleConfigMerge, to the return of that       *)
(* handler.  The project title was given on the command line.  What is at  *)
(* the path of a template and of a target is found when the path is read.  *)
(***************************************************************************)
FileChars == {"a", "b", "\n"}
MergeExampleTemplate == <<"a", "\n", "b", "\n", "c">>
MergeExampleTarget == <<"b">>

\* what can be at a path read by handleConfigCopy, which compares whole texts
CopyFiles == {Undefined, Denied, <<>>, <<"a", "\n">>, <<"b", "\n">>}

\* what can be at a path read by handleConfigMerge
MergeFiles ==
    SeqsUpTo(FileChars, MaxText)
        \cup {MergeExampleTemplate, MergeExampleTarget, Undefined, Denied}

\* init() at its call of a handler: the options and the CONFIG that follow
\* from the flags and from the answer to 'Create a UI?', which was prompted
\* for unless a flag answered it
InitAt(position) ==
    /\ \E yes \in BOOLEAN, no \in BOOLEAN, selected \in {"none", "angular", "svelte"} :
         LET uiFramework ==
                 querySelect([yes |-> yes, no |-> no], selected).answer
         IN /\ options = [yes |-> yes, no |-> no, title |-> FlagTitle,
                          ui |-> uiFramework # "none",
                          uiFramework |-> IF uiFramework = "none"
                                          THEN "undefined" ELSE uiFramework]
            /\ CONFIG = CASE uiFramework = "angular" -> configForAngular
                          [] uiFramework = "svelte" -> configForSvelte
                          [] OTHER -> config
            /\ prompted = querySelect([yes |-> yes, no |-> no], selected).prompts
    /\ pc = position
    /\ index = 1
    /\ disk = NoFile
    /\ content = <<>>
    /\ left = <<>>
    /\ right = <<>>
    /\ comparison = NotCompared
    /\ swapped = NotCompared
    /\ needsSave = FALSE
    /\ existingScripts = <<>>
    /\ before = <<>>
    /\ call = NoCall
    /\ spawned = <<>>
    /\ asked = <<>>
    /\ saves = 0
    /\ returned = NotReturned
    /\ files = NoFiles
    /\ tree = NoTree
    /\ atomic = NoWrite

InitHandler(position) == InitAt(position) /\ deploy = NoDeploy

InitCopy == InitHandler("copy")

InitMerge == InitHandler("merge")

\* the entry of the log of query() calls for a question about a file
AskedAbout(question, done) ==
    IF done.asked
    THEN <<[question |-> question, name |-> done.filename, current |-> "",
            desired |-> "", answer |-> done.answer]>>
    ELSE <<>>

\* handleConfigCopy: one iteration of for (const filename of
\* Object.keys(CONFIG.filesCopy)); after the last one init() goes on to
\* handleConfigMerge
CopyConfigOf(Files) ==
    /\ pc = "copy"
    /\ index <= Len(CONFIG.filesCopy)
    /\ \E source \in Files, target \in Files, toggled \in BOOLEAN :
         LET done == handleConfigCopyFile(CONFIG.filesCopy[index][2], source,
                                          target, options, toggled)
         IN /\ files' = done
            /\ asked' = asked \o AskedAbout("Overwrite", done)
            /\ prompted' = prompted + done.prompts
            /\ pc' = IF done.threw THEN "failed"
                      ELSE IF index = Len(CONFIG.filesCopy) THEN "merge"
                      ELSE "copy"
            /\ index' = IF done.threw THEN index
                         ELSE IF index = Len(CONFIG.filesCopy) THEN 1
                         ELSE index + 1
    /\ UNCHANGED <<compareVars, disk, content, options, CONFIG, needsSave,
                   existingScripts, before, call, spawned, saves, returned,
                   setupVars>>

\* handleConfigMerge: one iteration of for (const filename of
\* Object.keys(CONFIG.filesMerge)); after the last one init() goes on to
\* handleTemplate
MergeConfigOf(Files) ==
    /\ pc = "merge"
    /\ index <= Len(CONFIG.filesMerge)
    /\ \E source \in Files, target \in Files, toggled \in BOOLEAN :
         LET done == handleConfigMergeFile(CONFIG.filesMerge[index][2], source,
                                           target, options, toggled)
         IN /\ files' = done
            /\ asked' = asked \o AskedAbout("Merge", done)
            /\ prompted' = prompted + done.prompts
            /\ pc' = IF done.threw THEN "failed"
                      ELSE IF index = Len(CONFIG.filesMerge) THEN "template"
                      ELSE "merge"
            /\ index' = IF done.threw THEN index
                         ELSE IF index = Len(CONFIG.filesMerge) THEN 1
                         ELSE index + 1
    /\ UNCHANGED <<compareVars, disk, content, options, CONFIG, needsSave,
                   existingScripts, before, call, spawned, saves, returned,
                   setupVars>>

\* the two handlers over everything that can be at the paths they read
CopyConfig == CopyConfigOf(CopyFiles)

MergeConfig == MergeConfigOf(MergeFiles)

\* handleConfigMerge once more for the entry it has just written: the same
\* template, and at the target's path the text that was written
RepeatMergeConfig ==
    /\ files.op = "merge"
    /\ files.written
    /\ \E toggled \in BOOLEAN :
         LET done == handleConfigMergeFile(files.filename, files.source,
                                           files.text, options, toggled)
         IN /\ files' = [done EXCEPT !.op = "merge again"]
            /\ asked' = asked \o AskedAbout("Merge", done)
            /\ prompted' = prompted + done.prompts
    /\ UNCHANGED <<compareVars, disk, content, options, CONFIG, needsSave,
                   existingScripts, before, call, spawned, saves, returned,
                   pc, index,
                   setupVars>>

SpecCopy == InitCopy /\ [][CopyConfig]_vars

SpecMergeTwice == InitMerge /\ [][MergeConfig \/ RepeatMergeConfig]_vars

SpecMerge == InitMerge /\ [][MergeConfig]_vars

(***************************************************************************)
(* src/src/app.ts: handleTemplate.  A directory is the function from the   *)
(* names of its files to their contents, a name a sequence of characters.  *)
(***************************************************************************)
\* a directory without a file
EmptyDirectory == [file \in {} |-> "existing"]

\* file.toLowerCase()
toLowerCase(name) == [i \in 1..Len(name) |-> ToLower(name[i])]

\* name.endsWith(suffix)
endsWith(name, suffix) ==
    /\ Len(name) >= Len(suffix)
    /\ SubSeq(name, Len(name) - Len(suffix) + 1, Len(name)) = suffix

\* files.filter(file => file.toLowerCase().endsWith('.ts'))
tsFiles(directory) ==
    {file \in DOMAIN directory : endsWith(toLowerCase(file), <<".", "t", "s">>)}

\* a mutant of copy: an existing file is replaced
copyOverwrites(from, to, overwrite) ==
    [file \in DOMAIN from \cup DOMAIN to |->
        IF file \in DOMAIN from THEN from[file] ELSE to[file]]

\* fs.copy(src, dest, {overwrite}): with overwrite false a file that exists at
\* the destination is left as it is
copy(from, to, overwrite) ==
    [file \in DOMAIN from \cup DOMAIN to |->
        IF file \in DOMAIN to /\ (~overwrite \/ file \notin DOMAIN from)
        THEN to[file]
        ELSE from[file]]

\* handleTemplate: the body of the loop for one item of the templates
\* directory, template being the item's directory in the templates; at the
\* item's path in the working directory is found the directory target,
\* nothing ("nothing", and mkdirSync makes the directory) or a file ("file",
\* and mkdirSync throws)
handleTemplateItem(item, template, found, target) ==
    LET done == [op |-> "template", item |-> item, template |-> template,
                 target |-> target, found |-> found, threw |-> FALSE,
                 copied |-> FALSE, result |-> target]
        made == target
    IN IF found = "file"
       THEN [done EXCEPT !.threw = TRUE]
       ELSE IF tsFiles(made) = {}
       THEN [done EXCEPT !.copied = TRUE, !.result = copy(template, made, FALSE)]
       ELSE done

(***************************************************************************)
(* Specification SpecTemplate: init() from its call of handleTemplate to   *)
(* the return of that handler.                                             *)
(***************************************************************************)
\* the items of the templates directory
TemplateItems == <<"src", "test">>

IndexTs == <<"i", ".", "t", "s">>
UpperTs == <<"M", ".", "T", "S">>
ReadMe == <<"r", ".", "m", "d">>
NoSuffix == <<"t", "s">>

\* the directories of a template, and what can be at their paths in the
\* working directory
TemplateDirectories ==
    {[file \in names |-> "template"] :
        names \in (SUBSET {IndexTs, ReadMe}) \ {{}}}
TargetDirectories ==
    {[file \in names |-> "existing"] :
        names \in SUBSET {IndexTs, UpperTs, ReadMe, NoSuffix}}

\* what is found at the path of a target: a directory, nothing, or a file
Found(target) ==
    IF target = EmptyDirectory THEN {"directory", "nothing", "file"}
    ELSE {"directory"}

InitTemplate == InitHandler("template")

\* handleTemplate: one iteration of for (const item of items); after the
\* last one init() goes on to handleClasp
InstallTemplateOf(Templates, Targets) ==
    /\ pc = "template"
    /\ index <= Len(TemplateItems)
    /\ \E template \in Templates, target \in Targets :
       \E found \in Found(target) :
         LET done == handleTemplateItem(TemplateItems[index], template, found,
                                        target)
         IN /\ tree' = done
            /\ pc' = IF done.threw THEN "failed"
                      ELSE IF index = Len(TemplateItems) THEN "clasp"
                      ELSE "template"
            /\ index' = IF done.threw THEN index
                         ELSE IF index = Len(TemplateItems) THEN 1
                         ELSE index + 1
    /\ UNCHANGED <<compareVars, disk, content, options, CONFIG, needsSave,
                   existingScripts, before, call, spawned, asked, prompted,
                   saves, returned, files, deploy, atomic>>

InstallTemplate == InstallTemplateOf(TemplateDirectories, TargetDirectories)

SpecTemplate == InitTemplate /\ [][InstallTemplate]_vars

(***************************************************************************)
(* src/src/clasp-helper.ts and handleClasp of src/src/app.ts.  A call that *)
(* is not awaited goes on by itself after its caller has returned:         *)
(* deploy.arrange is the position of arrangeFiles and deploy.write the     *)
(* state of the writeConfig that arrangeFiles starts.                      *)
(***************************************************************************)
\* a mutant of isConfigured: dist/.clasp.json is not looked at
isConfiguredDevOnly(at) == at[".clasp-dev.json"] # Absent

\* isConfigured(): fs.exists('.clasp-dev.json') || fs.exists('dist/.clasp.json')
isConfigured(at) ==
    at[".clasp-dev.json"] # Absent \/ at["dist/.clasp.json"] # Absent

\* a mutant of clean: the production configuration is kept
cleanKeepsProduction(at) ==
    [path \in ClaspPaths |->
        IF path \in {"dist/.clasp.json", "appsscript.json", ".clasp.json",
                     ".clasp-dev.json"}
        THEN Absent ELSE at[path]]

\* clean(rootDir): fs.rm of the five artifacts
clean(at) ==
    [path \in ClaspPaths |->
        IF path \in {"dist/.clasp.json", "appsscript.json", ".clasp.json",
                     ".clasp-dev.json", ".clasp-prod.json"}
        THEN Absent ELSE at[path]]

\* writeConfig(scriptId, rootDir, filename): what writeFileAtomic writes
ClaspConfig(scriptId) == [kind |-> "config", scriptId |-> scriptId]
writeConfig(at, scriptId, filename) ==
    [at EXCEPT ![filename] = ClaspConfig(scriptId)]

\* fs.move(from, to) and fs.copyFile(from, to), which reject when there is
\* nothing at from
move(at, from, to) ==
    IF at[from] = Absent THEN [threw |-> TRUE, at |-> at]
    ELSE [threw |-> FALSE, at |-> [at EXCEPT ![to] = at[from], ![from] = Absent]]
copyFile(at, from, to) ==
    IF at[from] = Absent THEN [threw |-> TRUE, at |-> at]
    ELSE [threw |-> FALSE, at |-> [at EXCEPT ![to] = at[from]]]

\* what the external tool leaves behind: 'clasp create-script' a .clasp.json
\* in the working directory and a manifest in rootDir, 'clasp clone' and
\* 'clasp pull' a manifest in rootDir; nothing when it fails
ClaspOutcomes == {"ok", "failed"}
claspCreate(at, outcome) ==
    IF outcome = "ok"
    THEN [at EXCEPT ![".clasp.json"] = Created,
                    !["dist/appsscript.json"] = AppsScriptManifest]
    ELSE at
claspPull(at, outcome) ==
    IF outcome = "ok"
    THEN [at EXCEPT !["dist/appsscript.json"] = AppsScriptManifest]
    ELSE at

\* the script ids typed at the prompts of handleClasp
ScriptIds == {"", "dev", "prod"}

\* what the actions of this section leave alone
claspFrame ==
    <<compareVars, disk, content, options, CONFIG, needsSave, index,
      existingScripts, before, call, spawned, saves, returned, files, tree,
      atomic>>

\* handleClasp up to its call of the helper: login(), isConfigured(), the
\* override question and the two script id prompts
HandleClasp ==
    /\ pc = "clasp"
    /\ \E toggled \in BOOLEAN, typedDev \in ScriptIds, typedProd \in ScriptIds :
         LET claspConfigExists == isConfigured(deploy.at)
             q == query(options, toggled)
             overrideClasp == IF claspConfigExists THEN q.answer ELSE FALSE
             dev == queryText("", options, typedDev)
             prod == queryText(dev.answer, options, typedProd)
             login == IF deploy.credentials THEN <<>> ELSE <<"login">>
         IN /\ asked' = IF claspConfigExists
                        THEN Append(asked,
                                 [question |-> "Override existing clasp config?",
                                  name |-> "", current |-> "", desired |-> "",
                                  answer |-> q.answer])
                        ELSE asked
            /\ IF claspConfigExists /\ ~overrideClasp
               THEN /\ deploy' = [deploy EXCEPT !.ran = @ \o login]
                    /\ prompted' = prompted + q.prompts
                    /\ pc' = "done"
               ELSE /\ deploy' = [deploy EXCEPT !.ran = @ \o login,
                                                !.scriptIdDev = dev.answer,
                                                !.scriptIdProd = prod.answer]
                    /\ prompted' = prompted + dev.prompts + prod.prompts
                                      + (IF claspConfigExists THEN q.prompts ELSE 0)
                    /\ pc' = "clean"
    /\ UNCHANGED claspFrame

\* create() and cloneAndPull(): await this.clean(rootDir)
Clean ==
    /\ pc = "clean"
    /\ deploy' = [deploy EXCEPT !.at = clean(@), !.ran = Append(@, "clean")]
    /\ pc' = IF deploy.scriptIdDev # "" THEN "clone" ELSE "create"
    /\ UNCHANGED <<claspFrame, asked, prompted>>

\* create() after clean: spawn.sync of 'clasp create-script', then
\* this.arrangeFiles(rootDir, scriptIdProd), which is not awaited, and the
\* return of the links; handleClasp prints them and init() returns
Create ==
    /\ pc = "create"
    /\ \E outcome \in ClaspOutcomes :
         deploy' = [deploy EXCEPT !.at = claspCreate(@, outcome),
                                  !.ran = Append(@, "create"),
                                  !.arrange = "move config",
                                  !.returned = "create"]
    /\ pc' = "done"
    /\ UNCHANGED <<claspFrame, asked, prompted>>

\* cloneAndPull() after clean: await this.writeConfig(scriptIdDev, rootDir),
\* await fs.copyFile, spawn.sync of 'clasp clone' and of 'clasp pull', then
\* await this.arrangeFiles(rootDir, scriptIdProd)
CloneAndPull ==
    /\ pc = "clone"
    /\ \E outcome \in ClaspOutcomes :
         LET written == writeConfig(deploy.at, deploy.scriptIdDev, ".clasp.json")
             copied == copyFile(written, ".clasp.json", "dist/.clasp.json")
         IN deploy' = [deploy EXCEPT !.at = claspPull(copied.at, outcome),
                                     !.ran = @ \o <<"clone", "pull">>,
                                     !.arrange = "move config"]
    /\ pc' = "arrange"
    /\ UNCHANGED <<claspFrame, asked, prompted>>

\* a rejection of arrangeFiles reaches the caller that awaits it, and nobody
\* otherwise
Rejected(d) ==
    [d EXCEPT !.arrange = "rejected", !.unhandled = pc # "arrange"]

\* arrangeFiles: await fs.move('.clasp.json', '.clasp-dev.json')
MoveConfig ==
    /\ deploy.arrange = "move config"
    /\ LET moved == move(deploy.at, ".clasp.json", ".clasp-dev.json")
       IN /\ deploy' = IF moved.threw THEN Rejected(deploy)
                       ELSE [deploy EXCEPT !.at = moved.at,
                                           !.arrange = "move manifest"]
          /\ pc' = IF moved.threw /\ pc = "arrange" THEN "failed" ELSE pc
    /\ UNCHANGED <<claspFrame, asked, prompted>>

\* arrangeFiles: await fs.move(path.join(rootDir, 'appsscript.json'),
\* 'appsscript.json')
MoveManifest ==
    /\ deploy.arrange = "move manifest"
    /\ LET moved == move(deploy.at, "dist/appsscript.json", "appsscript.json")
       IN /\ deploy' = IF moved.threw THEN Rejected(deploy)
                       ELSE [deploy EXCEPT !.at = moved.at,
                                           !.arrange = "production"]
          /\ pc' = IF moved.threw /\ pc = "arrange" THEN "failed" ELSE pc
    /\ UNCHANGED <<claspFrame, asked, prompted>>

\* arrangeFiles: if (scriptIdProd) this.writeConfig(...), which is not
\* awaited, else await fs.copyFile('.clasp-dev.json', '.clasp-prod.json');
\* arrangeFiles returns, and with it cloneAndPull, handleClasp and init()
ProductionConfig ==
    /\ deploy.arrange = "production"
    /\ LET copied == copyFile(deploy.at, ".clasp-dev.json", ".clasp-prod.json")
       IN deploy' =
            IF deploy.scriptIdProd # ""
            THEN [deploy EXCEPT !.arrange = "done", !.write = "pending",
                     !.returned = IF pc = "arrange" THEN "cloneAndPull" ELSE @]
            ELSE [deploy EXCEPT !.arrange = "done", !.at = copied.at,
                     !.returned = IF pc = "arrange" THEN "cloneAndPull" ELSE @]
    /\ pc' = IF pc = "arrange" THEN "done" ELSE pc
    /\ UNCHANGED <<claspFrame, asked, prompted>>

\* writeConfig(scriptIdProd, rootDir, '.clasp-prod.json'): the
\* writeFileAtomic it started has written the file
WriteConfigSettles ==
    /\ deploy.write = "pending"
    /\ deploy' = [deploy EXCEPT
                    !.at = writeConfig(@, deploy.scriptIdProd, ".clasp-prod.json"),
                    !.write = "done"]
    /\ UNCHANGED <<claspFrame, asked, prompted, pc>>

(***************************************************************************)
(* Specification SpecClasp: init() from its call of handleClasp on, with   *)
(* the calls handleClasp leaves behind.                                    *)
(***************************************************************************)
Deployments ==
    {Deployment(credentials, found) :
        credentials \in BOOLEAN,
        found \in [ClaspPaths -> {Absent, Previous}]}

InitClasp == InitAt("clasp") /\ deploy \in Deployments

NextClasp ==
    \/ HandleClasp
    \/ Clean
    \/ Create
    \/ CloneAndPull
    \/ MoveConfig
    \/ MoveManifest
    \/ ProductionConfig
    \/ WriteConfigSettles

SpecClasp == InitClasp /\ [][NextClasp]_vars

(***************************************************************************)
(* Specification SpecInit: a whole run of init(), from the flags to its    *)
(* return or to the rejection that leaves it for the catch of run(), with  *)
(* the calls it leaves behind.                                             *)
(***************************************************************************)
\* what the run finds: no manifest, an unreadable one, or one with a script
\* that differs from the configured one
InitManifests ==
    {NoFile, Unreadable, File(Manifest(<<[lint |-> "mocha"]>>, <<>>, <<>>))}

\* what the run finds at the paths of the config files and of the template
InitFiles == {Undefined, Denied, <<"a", "\n">>}
InitTemplates == {[file \in {IndexTs} |-> "template"]}
InitTargets == {EmptyDirectory, [file \in {UpperTs} |-> "existing"]}

\* what the run finds of a previous deployment: nothing, or all of it
InitDeployments ==
    {Deployment(TRUE, [path \in ClaspPaths |-> Absent]),
     Deployment(FALSE, [path \in ClaspPaths |-> Previous])}

InitWhole ==
    /\ options \in [yes : BOOLEAN, no : BOOLEAN, title : {Undefined, FlagTitle},
                     ui : {FALSE}, uiFramework : {"undefined"}]
    /\ disk \in InitManifests
    /\ deploy \in InitDeployments
    /\ pc = "title"
    /\ content = <<>>
    /\ CONFIG = NoConfig
    /\ left = <<>>
    /\ right = <<>>
    /\ comparison = NotCompared
    /\ swapped = NotCompared
    /\ needsSave = FALSE
    /\ index = 0
    /\ existingScripts = <<>>
    /\ before = <<>>
    /\ call = NoCall
    /\ spawned = <<>>
    /\ asked = <<>>
    /\ prompted = 0
    /\ saves = 0
    /\ returned = NotReturned
    /\ files = NoFiles
    /\ tree = NoTree
    /\ atomic = NoWrite

CopyConfigInRun == CopyConfigOf(InitFiles)

MergeConfigInRun == MergeConfigOf(InitFiles)

InstallTemplateInRun == InstallTemplateOf(InitTemplates, InitTargets)

NextInit ==
    \/ DetermineTitle
    \/ SelectUi
    \/ LoadManifest
    \/ Generate
    \/ SynchronizeScript
    \/ SaveIfChanged
    \/ InstallDependencies
    \/ CopyConfigInRun
    \/ MergeConfigInRun
    \/ InstallTemplateInRun
    \/ HandleClasp
    \/ Clean
    \/ Create
    \/ CloneAndPull
    \/ MoveConfig
    \/ MoveManifest
    \/ ProductionConfig
    \/ WriteConfigSettles

SpecInit == InitWhole /\ [][NextInit]_vars

(***************************************************************************)
(* writeFileAtomic(path, data), as PackageHelper.save, handleConfigCopy    *)
(* and handleConfigMerge call it: the data goes piece by piece into a      *)
(* temporary file next to the path, which is then renamed to the path.     *)
(* Specification SpecWrite: one such write, from the call that starts it,  *)
(* with a crash of the process possible at every point of it.              *)
(***************************************************************************)
\* the call: nothing of data is written yet, and at the path is what was
\* there before
writeFileAtomic(path, previous, data, pieces) ==
    [phase |-> "temporary", path |-> path, previous |-> previous,
     data |-> data, pieces |-> pieces, temporary |-> 0,
     onDisk |-> OnDisk(previous, TRUE, 0)]

\* a mutant of writeTemporary: the pieces are written to the path itself
writeThrough(store) ==
    [store EXCEPT !.temporary = @ + 1,
                  !.onDisk = OnDisk(store.data, FALSE, store.temporary + 1)]

\* one more piece of the data is written to the temporary file
writeTemporary(store) == [store EXCEPT !.temporary = @ + 1]

\* the temporary file, complete, is renamed to the path
rename(store) ==
    [store EXCEPT !.phase = "written",
                  !.onDisk = OnDisk(store.data, TRUE, store.pieces)]

\* the manifests save() is called with, and what is at ./package.json then
WriteManifests == {<<>>, init(FlagTitle), [scripts |-> [lint |-> "eslint --fix"]]}
WriteDisks == {NoFile, File([scripts |-> [lint |-> "mocha"]])}

\* what can be at a path read by a handler that goes on to write
WriteFiles == SeqsUpTo(FileChars, 2) \cup {Undefined}

InitWrite == InitHandler("write")

writeFrame ==
    <<compareVars, disk, content, options, CONFIG, needsSave, index,
      existingScripts, before, call, spawned, saves, returned, tree, deploy>>

\* PackageHelper.save(): await writeFileAtomic(this.path, JSON text and a
\* line feed)
StartSave ==
    /\ pc = "write"
    /\ \E previous \in WriteDisks, manifest \in WriteManifests :
         atomic' = writeFileAtomic("./package.json", previous, save(manifest), 2)
    /\ pc' = "writing"
    /\ UNCHANGED <<writeFrame, files, asked, prompted>>

\* handleConfigCopy: await writeFileAtomic(CONFIG.filesCopy[filename], source)
StartCopy ==
    /\ pc = "write"
    /\ \E i \in 1..Len(CONFIG.filesCopy), source \in WriteFiles,
          target \in WriteFiles, toggled \in BOOLEAN :
         LET done == handleConfigCopyFile(CONFIG.filesCopy[i][2], source,
                                          target, options, toggled)
         IN /\ done.written
            /\ files' = done
            /\ asked' = asked \o AskedAbout("Overwrite", done)
            /\ prompted' = prompted + done.prompts
            /\ atomic' = writeFileAtomic(done.filename, target, done.text,
                                         Len(done.text))
    /\ pc' = "writing"
    /\ UNCHANGED writeFrame

\* handleConfigMerge: await writeFileAtomic(CONFIG.filesMerge[filename], the
\* merged lines)
StartMerge ==
    /\ pc = "write"
    /\ \E i \in 1..Len(CONFIG.filesMerge), source \in WriteFiles,
          target \in WriteFiles, toggled \in BOOLEAN :
         LET done == handleConfigMergeFile(CONFIG.filesMerge[i][2], source,
                                           target, options, toggled)
         IN /\ done.written
            /\ files' = done
            /\ asked' = asked \o AskedAbout("Merge", done)
            /\ prompted' = prompted + done.prompts
            /\ atomic' = writeFileAtomic(done.filename, target, done.text,
                                         Len(done.text))
    /\ pc' = "writing"
    /\ UNCHANGED writeFrame

WriteTemporary ==
    /\ pc = "writing"
    /\ atomic.temporary < atomic.pieces
    /\ atomic' = writeTemporary(atomic)
    /\ UNCHANGED <<writeFrame, files, asked, prompted, pc>>

Rename ==
    /\ pc = "writing"
    /\ atomic.temporary = atomic.pieces
    /\ atomic' = rename(atomic)
    /\ pc' = "written"
    /\ UNCHANGED <<writeFrame, files, asked, prompted>>

\* the process ends in the middle of the write
Crash ==
    /\ pc = "writing"
    /\ atomic' = [atomic EXCEPT !.phase = "crashed"]
    /\ pc' = "crashed"
    /\ UNCHANGED <<writeFrame, files, asked, prompted>>

NextWrite ==
    \/ StartSave
    \/ StartCopy
    \/ StartMerge
    \/ WriteTemporary
    \/ Rename
    \/ Crash

SpecWrite == InitWrite /\ [][NextWrite]_vars

(***************************************************************************)
(* Specification SpecHelper: a caller of one PackageHelper that creates a  *)
(* manifest, renames it, reads it through the getters, writes to what the  *)
(* getters returned and updates scripts.                                   *)
(***************************************************************************)
TitleChars == {"a", "B", " ", "_", "-"}
ExampleTitle ==
    <<"S", "o", "m", "e", " ", "C", "o", "o", "l", "T", "i", "t", "l", "e",
      " ", "H", "e", "r", "e">>
ExampleName ==
    <<"s", "o", "m", "e", "-", "c", "o", "o", "l", "-", "t", "i", "t", "l",
      "e", "-", "h", "e", "r", "e">>
Titles == SeqsUpTo(TitleChars, MaxTitle) \cup {ExampleTitle}

\* the objects the helper is constructed with: none given, the one of the
\* package's tests, and manifests with scripts, dependency tables and a field
\* the tool knows nothing about
HelperManifests ==
    {<<>>,
     [name |-> <<"t", "e", "s", "t">>, main |-> "index.js"],
     [scripts |-> [lint |-> "eslint --fix"], author |-> "someone"],
     [scripts |-> [lint |-> "eslint --fix", test |-> "mocha"],
      dependencies |-> <<"clasp">>, devDependencies |-> <<"eslint">>]}

InitHelper ==
    /\ content \in HelperManifests
    /\ disk = NoFile
    /\ pc = "helper"
    /\ left = <<>>
    /\ right = <<>>
    /\ comparison = NotCompared
    /\ swapped = NotCompared
    /\ options = NoOptions
    /\ CONFIG = config
    /\ needsSave = FALSE
    /\ index = 0
    /\ existingScripts = <<>>
    /\ before = content
    /\ call = NoCall
    /\ spawned = <<>>
    /\ asked = <<>>
    /\ prompted = 0
    /\ saves = 0
    /\ returned = NotReturned
    /\ files = NoFiles
    /\ tree = NoTree
    /\ atomic = NoWrite
    /\ deploy = NoDeploy

\* helper = PackageHelper.init(title)
InitManifest ==
    /\ pc = "helper"
    /\ \E title \in {FlagTitle, TypedTitle, DefaultTitle} :
         /\ content' = init(title)
         /\ call' = [op |-> "init", args |-> title, threw |-> FALSE,
                     message |-> "", value |-> <<>>]
    /\ before' = content
    /\ pc' = "initialised"
    /\ UNCHANGED <<compareVars, disk, options, CONFIG, needsSave, index,
                   existingScripts, spawned, asked, prompted, saves, moreVars>>

\* helper.updateName(title)
UpdateName ==
    /\ pc = "helper"
    /\ \E title \in Titles :
         /\ content' = updateName(content, title)
         /\ call' = [op |-> "updateName", args |-> title, threw |-> FALSE,
                     message |-> "", value |-> toPackageName(title)]
    /\ before' = content
    /\ pc' = "named"
    /\ UNCHANGED <<compareVars, disk, options, CONFIG, needsSave, index,
                   existingScripts, spawned, asked, prompted, saves, moreVars>>

\* helper.updateName(name), name being what updateName has just returned
RepeatUpdateName ==
    /\ pc = "named"
    /\ content' = updateName(content, call.value)
    /\ call' = [op |-> "updateName", args |-> call.value, threw |-> FALSE,
                message |-> "", value |-> toPackageName(call.value)]
    /\ before' = content
    /\ pc' = "renamed"
    /\ UNCHANGED <<compareVars, disk, options, CONFIG, needsSave, index,
                   existingScripts, spawned, asked, prompted, saves, moreVars>>

\* the caller keeps what a getter returned
Returned(op, snapshot) ==
    [op |-> op, value |-> snapshot.value, shares |-> snapshot.shares,
     writes |-> 0]

\* const value = helper.getContent()
GetContent ==
    /\ pc \in {"helper", "initialised"}
    /\ returned' = Returned("getContent", getContentSnapshot(content))
    /\ pc' = "read"
    /\ UNCHANGED <<compareVars, disk, content, options, CONFIG, needsSave,
                   index, existingScripts, before, call, spawned, asked,
                   prompted, saves, files,
                   setupVars>>

\* const value = helper.getScripts()
GetScripts ==
    /\ pc \in {"helper", "initialised"}
    /\ returned' = Returned("getScripts", getScriptsSnapshot(content))
    /\ pc' = "read"
    /\ UNCHANGED <<compareVars, disk, content, options, CONFIG, needsSave,
                   index, existingScripts, before, call, spawned, asked,
                   prompted, saves, files,
                   setupVars>>

\* const value = helper.getDependencies(includeDevDependencies)
GetDependencies ==
    /\ pc \in {"helper", "initialised"}
    /\ \E includeDevDependencies \in BOOLEAN :
         returned' = Returned("getDependencies",
                              getDependenciesSnapshot(content,
                                                      includeDevDependencies))
    /\ pc' = "read"
    /\ UNCHANGED <<compareVars, disk, content, options, CONFIG, needsSave,
                   index, existingScripts, before, call, spawned, asked,
                   prompted, saves, files,
                   setupVars>>

\* whether a write at a place of a returned value lands in the helper's own
\* content: it does when the caller holds the object written to
Reaches(shares, at) ==
    CASE shares = "content" -> TRUE
      [] shares = "nested" -> at # "top"
      [] shares = "scripts" -> at = "scripts"
      [] shares = "dependencies" -> at = "dependencies"
      [] OTHER -> FALSE

\* object.key = value, object.scripts[key] = value, or
\* object.dependencies[key] = value (a new key is added last)
Written(object, write) ==
    CASE write.at = "top" -> WithProperty(object, write.key, write.value)
      [] write.at = "scripts" ->
           WithProperty(object, "scripts",
                        WithProperty(object.scripts, write.key, write.value))
      [] write.at = "dependencies" ->
           WithProperty(object, "dependencies",
                        NewSet(Append(object.dependencies, write.key)))

\* the assignments a caller can make to what a getter returned, each with
\* the returned value as it is afterwards
CallerWrites(r) ==
    CASE r.op = "getContent" ->
           {[at |-> "top", key |-> "name", value |-> <<"o", "t", "h", "e", "r">>,
             result |-> WithProperty(r.value, "name", <<"o", "t", "h", "e", "r">>)]}
           \cup (IF "scripts" \in DOMAIN r.value
                 THEN {[at |-> "scripts", key |-> k, value |-> "changed",
                        result |-> WithProperty(r.value, "scripts",
                                      WithProperty(r.value.scripts, k, "changed"))] :
                         k \in {"lint", "start"}}
                 ELSE {})
      [] r.op = "getScripts" ->
           {[at |-> "scripts", key |-> k, value |-> "changed",
             result |-> WithProperty(r.value, k, "changed")] :
              k \in {"lint", "start"}}
      [] r.op = "getDependencies" ->
           {[at |-> "dependencies", key |-> "fs-extra", value |-> "*",
             result |-> NewSet(Append(r.value, "fs-extra"))]}

\* the caller assigns to a property of the value it got
ModifyReturned ==
    /\ pc = "read"
    /\ returned.writes < MaxWrites
    /\ \E write \in CallerWrites(returned) :
         /\ returned' = [returned EXCEPT !.value = write.result,
                                         !.writes = @ + 1]
         /\ content' = IF Reaches(returned.shares, write.at)
                       THEN Written(content, write) ELSE content
    /\ UNCHANGED <<compareVars, disk, options, CONFIG, pc, needsSave, index,
                   existingScripts, before, call, spawned, asked, prompted,
                   saves, files,
                   setupVars>>

\* helper.updateScript(name, script), after a getter has returned: the
\* helper assigns a new scripts object to this.content.scripts, which a
\* caller holding this.content sees and a caller holding the old scripts
\* object does not
UpdateScript ==
    /\ pc = "read"
    /\ \E name \in {"lint", "test"}, script \in {"eslint --fix", "vitest run"} :
         /\ content' = updateScript(content, name, script)
         /\ call' = [op |-> "updateScript", args |-> <<name, script>>,
                     threw |-> FALSE, message |-> "",
                     value |-> getScripts(updateScript(content, name, script))]
         /\ returned' = IF returned.shares = "content"
                        THEN [returned EXCEPT
                                !.value = updateScript(content, name, script)]
                        ELSE returned
    /\ before' = content
    /\ UNCHANGED <<compareVars, disk, options, CONFIG, pc, needsSave, index,
                   existingScripts, spawned, asked, prompted, saves, files,
                   setupVars>>

NextHelper ==
    \/ InitManifest
    \/ UpdateName
    \/ RepeatUpdateName
    \/ GetContent
    \/ GetScripts
    \/ GetDependencies
    \/ ModifyReturned
    \/ UpdateScript

SpecHelper == InitHelper /\ [][NextHelper]_vars

(***************************************************************************)
(* Properties.                                                             *)
(***************************************************************************)
\* position of the first occurrence of x in s
FirstSeen(s, x) == CHOOSE i \in 1..Len(s) : s[i] = x /\ \A j \in 1..(i - 1) : s[j] # x

\* view lists its elements in the order in which s first shows them
InFirstSeenOrder(view, s) ==
    \A i, j \in 1..Len(view) :
        i < j => FirstSeen(s, view[i]) < FirstSeen(s, view[j])

\* C1: compare(A, B) has exactly one entry per distinct element of A \cup B,
\* each entry's flags are the element's membership in A and in B (one of
\* them is true), and the views left, right, both are A \ B, B \ A and
\* A \cap B: without repetition, pairwise disjoint, covering A \cup B, each in
\* first-seen order over A followed by B.
C1_CompareViews ==
    pc \in {"compared", "swapped"} =>
        LET A == Range(left)
            B == Range(right)
            entries == comparison.entries
        IN /\ {entries[i].element : i \in 1..Len(entries)} = A \cup B
           /\ Len(entries) = Cardinality(A \cup B)
           /\ \A i \in 1..Len(entries) :
                /\ entries[i].left = (entries[i].element \in A)
                /\ entries[i].right = (entries[i].element \in B)
                /\ entries[i].left \/ entries[i].right
           /\ Range(comparison.left) = A \ B
           /\ Range(comparison.right) = B \ A
           /\ Range(comparison.both) = A \cap B
           /\ Len(comparison.left) + Len(comparison.right) + Len(comparison.both)
                = Cardinality(A \cup B)
           /\ InFirstSeenOrder(comparison.left, left \o right)
           /\ InFirstSeenOrder(comparison.right, left \o right)
           /\ InFirstSeenOrder(comparison.both, left \o right)

\* C1 witness: inputs with repeated elements whose three views are all
\* non-empty have been compared
C1_Witness ==
    /\ pc = "compared"
    /\ left = <<2, 1, 2>>
    /\ right = <<3, 2, 3>>
    /\ comparison.left = <<1>>
    /\ comparison.right = <<3>>
    /\ comparison.both = <<2>>

\* C2 as stated: compare(A, B).both = compare(B, A).both and
\* compare(A, B).left = compare(B, A).right, as ordered lists.
C2_SwapEqualLists ==
    pc = "swapped" =>
        /\ comparison.both = swapped.both
        /\ comparison.left = swapped.right

\* C2 amended: compare(A, B).both and compare(B, A).both hold the same
\* elements, each once (the first in A's order, the second in B's), and
\* compare(A, B).left = compare(B, A).right as ordered lists.
C2_SwapSameElements ==
    pc = "swapped" =>
        /\ Range(comparison.both) = Range(swapped.both)
        /\ Len(comparison.both) = Len(swapped.both)
        /\ NoDup(comparison.both)
        /\ comparison.left = swapped.right

\* C2 witness: both comparisons are computed, the intersections are listed
\* in different orders and the left-only view is not empty
C2_Witness ==
    /\ pc = "swapped"
    /\ comparison.both # swapped.both
    /\ comparison.left # <<>>
\* the names a manifest declares under dependencies or devDependencies
DeclaredNames(c) ==
    (IF "dependencies" \in DOMAIN c THEN Range(c.dependencies) ELSE {})
        \cup (IF "devDependencies" \in DOMAIN c
              THEN Range(c.devDependencies) ELSE {})

InstallReturned == call.op = "installPackages" /\ ~call.threw
InstallerInvoked == call.op = "installPackages" /\ spawned # <<>>

\* C3: installPackages(P) on a manifest declaring the names D passes the
\* installer exactly the packages of P that are not in D, each once, in P's
\* order; when it then returns, with D' the names the manifest on disk
\* declares, the result is requested = P, resolved = D \cap D',
\* installed = D' \ D.
C3_InstallMissing ==
    call.op = "installPackages" =>
        LET D == DeclaredNames(before)
            P == call.args
        IN /\ Range(P) \subseteq D => spawned = <<>>
           /\ ~(Range(P) \subseteq D) =>
                /\ Len(spawned) = 1
                /\ Range(spawned[1].args) = Range(P) \ D
                /\ NoDup(spawned[1].args)
                /\ InFirstSeenOrder(spawned[1].args, P)
           /\ (spawned # <<>> /\ ~call.threw) =>
                /\ disk.state = "file"
                /\ call.value.requested = P
                /\ Range(call.value.resolved) = D \cap DeclaredNames(disk.json)
                /\ NoDup(call.value.resolved)
                /\ Range(call.value.installed) = DeclaredNames(disk.json) \ D
                /\ NoDup(call.value.installed)

\* C3 witness: dependencies {clasp}, request [clasp, eslint]: the installer
\* was given [eslint] alone and the call returned resolved [clasp],
\* installed [eslint]
C3_Witness ==
    /\ InstallReturned
    /\ before = [dependencies |-> <<"clasp">>]
    /\ call.args = <<"clasp", "eslint">>
    /\ Len(spawned) = 1
    /\ spawned[1].args = <<"eslint">>
    /\ call.value = [requested |-> <<"clasp", "eslint">>,
                     resolved |-> <<"clasp">>, installed |-> <<"eslint">>]

\* C4: when every package of P is already declared under dependencies or
\* devDependencies, installPackages(P) invokes no external process, leaves
\* the in-memory manifest as it was and returns requested = P, resolved = P,
\* installed = [].
C4_NothingToInstall ==
    (call.op = "installPackages" /\ Range(call.args) \subseteq DeclaredNames(before)) =>
        /\ spawned = <<>>
        /\ content = before
        /\ ~call.threw
        /\ call.value = [requested |-> call.args, resolved |-> call.args,
                         installed |-> <<>>]

\* C4 witness: a request covered partly by dependencies and partly by
\* devDependencies has returned
C4_Witness ==
    /\ InstallReturned
    /\ before = [dependencies |-> <<"clasp">>, devDependencies |-> <<"eslint">>]
    /\ call.args = <<"eslint", "clasp">>
    /\ spawned = <<>>

\* C5: after installPackages(L) has succeeded for a configured dependency
\* list L and the manifest declares every package of L under its package
\* name, the immediately repeated installPackages(L) asks the installer for
\* nothing.
C5_RepeatInstallsNothing ==
    (/\ pc = "repeated"
     /\ call.args \in {t.dependencies : t \in ConfigTables}
     /\ \A i \in 1..Len(call.args) :
            PackageName(call.args[i]) \in DeclaredNames(before))
        => spawned = <<>>

\* C6 as stated: installPackages fails exactly when the installer was invoked
\* and its error stream is non-empty or the manifest is absent on disk
\* afterwards; on installer failure the message is the captured error text,
\* nothing is returned and the in-memory manifest is what it was.
C6_FailsOnStderrOrAbsent ==
    call.op = "installPackages" =>
        /\ call.threw <=>
              (spawned # <<>> /\ (spawned[1].stderr # "" \/ disk.state = "absent"))
        /\ (spawned # <<>> /\ spawned[1].stderr # "") =>
              /\ call.message = spawned[1].stderr
              /\ call.value = NoResult
              /\ content = before

\* C6 amended: installPackages fails exactly when the installer was invoked
\* and its error stream is non-empty or the manifest cannot be loaded from
\* disk afterwards (absent, or unreadable); on installer failure the message
\* is the captured error text; on every failure nothing is returned and the
\* in-memory manifest is what it was.
C6_FailsOnStderrOrReload ==
    call.op = "installPackages" =>
        /\ call.threw <=>
              (spawned # <<>> /\ (spawned[1].stderr # "" \/ disk.state # "file"))
        /\ (spawned # <<>> /\ spawned[1].stderr # "") =>
              call.message = spawned[1].stderr
        /\ (spawned # <<>> /\ spawned[1].stderr = "" /\ disk.state = "absent") =>
              call.message = "Cannot find package.json"
        /\ call.threw => (call.value = NoResult /\ content = before)

\* C6 witness: the installer printed an error after rewriting the manifest;
\* the call failed with that text and the helper kept its content
C6_Witness ==
    /\ call.op = "installPackages"
    /\ call.threw
    /\ call.message = "npm ERR! code E404"
    /\ disk.state = "file"
    /\ disk.json # before
    /\ content = before

\* C7: after an installPackages call that invoked the installer and
\* returned, the in-memory manifest, as every read returns it, equals the
\* manifest on disk; and at the end of handlePackageJson the two are equal.
C7_MemoryEqualsDisk ==
    ((InstallerInvoked /\ ~call.threw) \/ pc = "copy") =>
        /\ disk.state = "file"
        /\ getContent(content) = disk.json
        /\ getScripts(content)
             = (IF "scripts" \in DOMAIN disk.json THEN disk.json.scripts ELSE <<>>)
        /\ Range(getDependencyPackages(content, TRUE)) = DeclaredNames(disk.json)

\* C7 witness: handlePackageJson has ended after the installer rewrote the
\* manifest, and the helper's content is no longer what it was
C7_Witness ==
    /\ pc = "copy"
    /\ InstallerInvoked
    /\ content # before

\* the Replace confirmations asked so far for the script name
Confirmations(name) ==
    {i \in 1..Len(asked) : asked[i].question = "Replace" /\ asked[i].name = name}

\* C8: for every (name, desired) of the target table already processed: a
\* script the manifest did not have is set to desired; one it had with
\* another command is confirmed once with (name, current, desired) and
\* becomes desired exactly when the answer is true; scripts outside the
\* table keep their commands.  With manifest {test: A}, target {test: B,
\* lint: C} and every conflict declined the result is {test: A, lint: C}
\* and the manifest is dirty.
C8_ScriptSync ==
    (pc = "scripts" \/ pc = "install") =>
        LET scripts == getScripts(content)
            table == CONFIG.scripts
            done == 1..(index - 1)
        IN /\ \A i \in done :
                LET name == table[i][1]
                    desired == table[i][2]
                IN /\ name \in DOMAIN scripts
                   /\ name \notin DOMAIN existingScripts =>
                        (scripts[name] = desired /\ Confirmations(name) = {})
                   /\ (name \in DOMAIN existingScripts
                          /\ existingScripts[name] = desired) =>
                        (scripts[name] = desired /\ Confirmations(name) = {})
                   /\ (name \in DOMAIN existingScripts
                          /\ existingScripts[name] # desired) =>
                        /\ Cardinality(Confirmations(name)) = 1
                        /\ \A k \in Confirmations(name) :
                              /\ asked[k].current = existingScripts[name]
                              /\ asked[k].desired = desired
                              /\ scripts[name] = (IF asked[k].answer THEN desired
                                                  ELSE existingScripts[name])
           /\ \A name \in DOMAIN scripts \ {table[i][1] : i \in done} :
                /\ name \in DOMAIN existingScripts
                /\ scripts[name] = existingScripts[name]
           /\ DOMAIN existingScripts \subseteq DOMAIN scripts
           /\ (/\ CONFIG = config
               /\ index > Len(table)
               /\ existingScripts = [test |-> "mocha"]
               /\ \A k \in Confirmations("test") : ~asked[k].answer) =>
                (/\ scripts = [test |-> "mocha", lint |-> "eslint --fix"]
                 /\ needsSave)

\* C8 witness: manifest {test: mocha}, target {lint: eslint --fix, test:
\* vitest run}, the conflict on test was declined; lint was added, test kept
C8_Witness ==
    /\ pc = "install"
    /\ CONFIG = config
    /\ existingScripts = [test |-> "mocha"]
    /\ Cardinality(Confirmations("test")) = 1
    /\ \A k \in Confirmations("test") : ~asked[k].answer
    /\ getScripts(content) = [test |-> "mocha", lint |-> "eslint --fix"]
    /\ needsSave

\* the manifest of the run was loaded from disk, not generated
LoadedFromDisk == \A i \in 1..Len(asked) : asked[i].question # "Generate package.json?"

\* C9: script synchronisation marks the manifest dirty exactly when a script
\* was added or had its command changed; a manifest loaded from disk whose
\* scripts already equal every target script is not marked dirty and is not
\* written.
C9_DirtyIffChanged ==
    (pc = "install" /\ LoadedFromDisk) =>
        /\ needsSave <=> (getScripts(content) # existingScripts)
        /\ saves > 0 <=> (getScripts(content) # existingScripts)

\* C10: PackageHelper.load returns undefined exactly when the file does not
\* exist, a helper holding the parsed content when the file can be read, and
\* throws on every other failure; after a load that found no manifest the
\* orchestrator asks whether to generate one and has not failed.
C10_LoadOutcomes ==
    /\ call.op = "load" =>
          /\ (~call.threw /\ ~call.value.helper) <=> disk.state = "absent"
          /\ (~call.threw /\ call.value.helper) <=> disk.state = "file"
          /\ call.threw <=> disk.state = "unreadable"
          /\ call.value.helper => getContent(call.value.content) = disk.json
          /\ call.threw => ~call.value.helper
    /\ (call.op = "load" /\ pc \in {"generate", "scripts", "failed"}) =>
          /\ disk.state = "absent" =>
                \/ pc = "generate"
                \/ (pc = "scripts" /\ asked # <<>>
                      /\ asked[1].question = "Generate package.json?")
          /\ pc = "generate" => disk.state = "absent"
          /\ pc = "failed" => disk.state = "unreadable"

\* C10 witness: the orchestrator loaded, found no manifest, and has asked
\* whether to generate one
C10_Witness ==
    /\ call.op = "load"
    /\ disk.state = "absent"
    /\ ~call.threw
    /\ ~call.value.helper
    /\ pc = "scripts"
    /\ asked # <<>>
    /\ asked[1].question = "Generate package.json?"

\* C11: PackageHelper.init(title) yields exactly the default template with
\* the normalised title as name: version '0.0.0', description '', main
\* 'build/index.js', license 'Apache-2.0', keywords [], scripts {} and
\* engines.node '>=22'.
C11_InitDefaultTemplate ==
    call.op = "init" /\ pc = "initialised" =>
        content = [name |-> toPackageName(call.args),
                   version |-> "0.0.0",
                   description |-> "",
                   main |-> "build/index.js",
                   license |-> "Apache-2.0",
                   keywords |-> <<>>,
                   scripts |-> <<>>,
                   engines |-> [node |-> ">=22"]]

\* C12: toPackageName is idempotent, its output holds no uppercase letter,
\* no whitespace and no underscore, and 'Some CoolTitle Here' becomes
\* 'some-cool-title-here'.
C12_NormalizeIdempotent ==
    /\ call.op = "updateName" =>
         /\ \A i \in 1..Len(call.value) :
              call.value[i] \notin UpperCase \cup WhiteSpaceOrUnderscore
         /\ content.name = call.value
         /\ call.args = ExampleTitle => call.value = ExampleName
    /\ pc = "renamed" => call.value = call.args

C12_Witness ==
    /\ pc = "renamed"
    /\ call.value = ExampleName

\* C13: a value returned by getContent, getScripts or getDependencies is a
\* snapshot: a write of the caller to it leaves the manifest as it was, an
\* update of the manifest leaves the returned value as it was, and getScripts
\* returns the empty map for a manifest without scripts.
C13_Snapshots ==
    [][/\ returned'.writes # returned.writes => content' = content
       /\ returned.op # "none" /\ returned'.writes = returned.writes =>
            returned'.value = returned.value
       /\ returned.op = "none" /\ returned'.op = "getScripts"
          /\ "scripts" \notin DOMAIN content => returned'.value = <<>>]_vars

C13_Witness ==
    /\ pc = "read"
    /\ returned.op \in {"getContent", "getScripts"}
    /\ returned.writes > 0
    /\ call.op = "updateScript"
    /\ "scripts" \in DOMAIN content
    /\ "lint" \in DOMAIN content.scripts
    /\ content.scripts.lint # "changed"

\* every field of a manifest but its scripts
NonScriptFields(object) == [k \in DOMAIN object \ {"scripts"} |-> object[k]]

\* every script of a manifest but the one called name
OtherScripts(object, name) ==
    [n \in DOMAIN getScripts(object) \ {name} |-> getScripts(object)[n]]

\* C14: updateScript(name, command) changes only scripts[name]: every other
\* script and every other field of the manifest, unknown ones included,
\* keeps its value; and from the load of a manifest to the end of its save
\* every non-script field on disk keeps the value it had before the run.
C14_UpdateScriptFrame ==
    [][/\ pc = "scripts" /\ index' = index + 1 =>
            /\ NonScriptFields(content') = NonScriptFields(content)
            /\ OtherScripts(content', CONFIG.scripts[index][1])
                 = OtherScripts(content, CONFIG.scripts[index][1])
            /\ disk' = disk
       /\ pc = "load" /\ pc' = "scripts" =>
            /\ disk' = disk
            /\ content' = disk.json
       /\ pc = "scripts" /\ LoadedFromDisk =>
            /\ disk'.state = "file"
            /\ NonScriptFields(disk'.json) = NonScriptFields(disk.json)
            /\ NonScriptFields(content') = NonScriptFields(disk.json)]_vars

C14_Witness ==
    /\ pc = "install"
    /\ LoadedFromDisk
    /\ saves = 1
    /\ "author" \in DOMAIN disk.json
    /\ "start" \in DOMAIN disk.json.scripts
    /\ disk.json.scripts # existingScripts

\* the lines of a text, a final line feed ending the last line
LinesOfText(text) ==
    IF text = <<>> THEN <<>>
    ELSE IF text[Len(text)] = "\n" THEN Split(SubSeq(text, 1, Len(text) - 1))
    ELSE Split(text)

IsPrefix(s, t) == Len(s) <= Len(t) /\ SubSeq(t, 1, Len(s)) = s

\* the pieces of the target's text between line feeds, none without target
PiecesOfTarget == IF files.target = Undefined THEN <<>> ELSE Split(files.target)

\* the pieces of the template's text that are no piece of the target's
PiecesMissing ==
    SelectSeq(Split(files.source),
              LAMBDA piece : \A i \in 1..Len(PiecesOfTarget) :
                                 PiecesOfTarget[i] # piece)

\* C15: a written merge target holds the target's previous lines followed
\* by the missing lines, empty lines removed, joined by line feeds and ended
\* by one line feed; the missing lines are the template's lines, in template
\* order and with their repetitions, that equal no line of the previous
\* target.  Template [a, b, c] and target [b] give missing lines [a, c] and
\* merged lines [b, a, c].
C15_MergedText ==
    files.op = "merge" /\ files.written =>
        /\ files.text =
             Join(SelectSeq(PiecesOfTarget \o PiecesMissing,
                            LAMBDA piece : piece # <<>>)) \o <<"\n">>
        /\ files.source = MergeExampleTemplate /\ files.target = MergeExampleTarget =>
             /\ PiecesMissing = << <<"a">>, <<"c">> >>
             /\ files.text = <<"b", "\n", "a", "\n", "c", "\n">>

C15_Witness ==
    /\ files.op = "merge"
    /\ files.written
    /\ files.source = MergeExampleTemplate
    /\ files.target = MergeExampleTarget

\* C16 as stated: whenever an existing merge target is rewritten, all its
\* previous lines are, unchanged and in order, the first lines of the new
\* content, and every later line is a line of the template.
C16_AppendOnly ==
    files.op = "merge" /\ files.written /\ files.target # Undefined =>
        LET old == LinesOfText(files.target)
            new == LinesOfText(files.text)
        IN /\ IsPrefix(old, new)
           /\ \A i \in (Len(old) + 1)..Len(new) :
                new[i] \in Range(LinesOfText(files.source))

\* C16, amended: whenever an existing merge target is rewritten, its
\* previous non-empty lines are, unchanged and in order, the first lines of
\* the new content, every later line is a non-empty line of the template,
\* and the new content has no empty line.
C16_AppendOnlyNonEmpty ==
    files.op = "merge" /\ files.written /\ files.target # Undefined =>
        LET old == SelectSeq(LinesOfText(files.target),
                             LAMBDA line : line # <<>>)
            new == LinesOfText(files.text)
        IN /\ IsPrefix(old, new)
           /\ \A i \in (Len(old) + 1)..Len(new) :
                new[i] \in Range(LinesOfText(files.source))
           /\ \A i \in 1..Len(new) : new[i] # <<>>

C16_Witness ==
    /\ files.op = "merge"
    /\ files.written
    /\ files.asked
    /\ files.target = <<"a", "\n", "\n", "b">>
    /\ files.source = <<"a", "b">>

\* C17: a merge target is written only if a line of the template is missing
\* from it and the target did not exist or the Merge question was answered
\* yes; with template and target identical, without template, or with the
\* question answered no (as it is under assume-no alone) nothing is written
\* and the target keeps its content.
C17_MergeWritesOnlyIfConfirmed ==
    files.op = "merge" =>
        /\ files.written =>
             /\ files.source \notin {Undefined, Denied}
             /\ \E piece \in Range(Split(files.source)) :
                    piece \notin Range(PiecesOfTarget)
             /\ files.target = Undefined \/ (files.asked /\ files.answer)
        /\ \/ files.source = files.target
           \/ files.source = Undefined
           \/ files.asked /\ ~files.answer
           \/ files.target # Undefined /\ options.no /\ ~options.yes
           => ~files.written
        /\ ~files.written => files.text = files.target

C17_Witness ==
    /\ files.op = "merge"
    /\ files.asked
    /\ ~files.answer
    /\ ~files.written
    /\ options.no
    /\ files.source = MergeExampleTemplate
    /\ files.target = MergeExampleTarget

\* C18: for a copy entry whose target exists and differs from the template,
\* a confirmation is asked and the target is rewritten, to exactly the
\* template, only when it is given; with the target identical to the
\* template or without template nothing is written and nothing is asked; an
\* absent target is written without asking.
C18_CopyAsksBeforeOverwrite ==
    files.op = "copy" /\ ~files.threw =>
        /\ files.target # Undefined /\ files.source # Undefined
           /\ files.target # files.source =>
             /\ files.asked
             /\ files.written <=> files.answer
        /\ files.written => files.text = files.source
        /\ files.source = files.target \/ files.source = Undefined =>
             ~files.written /\ ~files.asked
        /\ files.target = Undefined /\ files.source # Undefined =>
             files.written /\ ~files.asked

\* C19: a confirmation asked is answered true under assume-yes and false
\* under assume-no alone, without a prompt in either case; under assume-no
\* alone no existing config file is overwritten.
C19_FlagsAnswerConfirmations ==
    files.op = "copy" =>
        /\ files.asked /\ options.yes => files.answer /\ files.prompts = 0
        /\ files.asked /\ options.no /\ ~options.yes =>
             ~files.answer /\ files.prompts = 0
        /\ options.no /\ ~options.yes /\ files.target # Undefined =>
             ~files.written

\* C20: in a run with exactly one of assume-yes and assume-no set, no prompt
\* of any kind is read: every question is answered by the flag.
C20_NoPromptUnderOneFlag ==
    options.yes # options.no => prompted = 0

\* the object a table of <<name, command>> entries stands for
TableAsObject(table) ==
    [name \in {table[i][1] : i \in 1..Len(table)} |->
        table[CHOOSE i \in 1..Len(table) : table[i][1] = name][2]]

\* the run found no manifest and 'Generate package.json?' was answered no
GenerationDeclined ==
    /\ Len(asked) > 0
    /\ asked[1].question = "Generate package.json?"
    /\ ~asked[1].answer

\* C28: when no manifest exists and its generation is declined, a manifest
\* is written all the same before the installer is invoked, and it holds the
\* configured scripts and nothing else: no name, version, license, engines.
C28_DeclinedStillWritten ==
    pc = "install" /\ GenerationDeclined =>
        /\ saves = 1
        /\ spawned = <<>>
        /\ disk = File([scripts |-> TableAsObject(CONFIG.scripts)])

C28_Witness ==
    /\ pc = "install"
    /\ GenerationDeclined
    /\ options.no
    /\ ~options.yes
    /\ prompted = 0
    /\ CONFIG = config

\* C30: the merge is idempotent; a second pass over a target the merge has
\* just written, with the same template, finds no missing line, asks nothing,
\* prompts nothing and writes nothing, so that the target keeps its text.
C30_MergeIdempotent ==
    files.op = "merge again" =>
        /\ ~files.threw
        /\ ~files.written
        /\ ~files.asked
        /\ files.prompts = 0
        /\ files.text = files.target
        /\ MissingLines(Split(files.source), Split(files.target)) = <<>>

\* the second pass after a merge into a target without a final line feed, of
\* a template with an empty line and without a final line feed
C30_Witness ==
    /\ files.op = "merge again"
    /\ files.source = <<"a", "\n", "\n", "b">>
    /\ files.target = <<"b", "\n", "a", "\n">>
    /\ ~options.yes
    /\ ~options.no

\* C26: installing the template never changes an existing file; for each
\* item nothing is copied into a target directory that holds a file whose
\* name ends in .ts, in any case of letters, and when files are copied every
\* file the target already had keeps its content.
C26_TemplateKeepsExisting ==
    tree.op = "template" /\ ~tree.threw =>
        LET found == tree.target
        IN /\ \A file \in DOMAIN found :
                /\ file \in DOMAIN tree.result
                /\ tree.result[file] = found[file]
           /\ (IndexTs \in DOMAIN found \/ UpperTs \in DOMAIN found) =>
                /\ ~tree.copied
                /\ tree.result = found

\* files were copied next to an existing file of the template's name
C26_Witness ==
    /\ tree.op = "template"
    /\ tree.copied
    /\ DOMAIN tree.target = {ReadMe, NoSuffix}
    /\ DOMAIN tree.template = {IndexTs, ReadMe}
    /\ tree.result[IndexTs] = "template"
    /\ tree.result[ReadMe] = "existing"

\* the helper's create or cloneAndPull has returned to handleClasp
HelperReturned == deploy.returned \in {"create", "cloneAndPull"}

\* C22: when ClaspHelper.create and ClaspHelper.cloneAndPull return, every
\* operation they started has completed and the deployment files are
\* arranged: .clasp.json has been moved to .clasp-dev.json, appsscript.json
\* has been moved out of the root directory, and .clasp-prod.json holds the
\* production script id when one was given and a copy of .clasp-dev.json
\* otherwise.
C22_ArrangedOnReturn ==
    HelperReturned =>
        /\ deploy.arrange = "done"
        /\ deploy.write # "pending"
        /\ deploy.at[".clasp.json"] = Absent
        /\ deploy.at[".clasp-dev.json"] # Absent
        /\ deploy.at["dist/appsscript.json"] = Absent
        /\ deploy.at["appsscript.json"] # Absent
        /\ deploy.at[".clasp-prod.json"] =
              IF deploy.scriptIdProd # ""
              THEN ClaspConfig(deploy.scriptIdProd)
              ELSE deploy.at[".clasp-dev.json"]

\* the commands and helper operations run so far, the login left aside
Commands == SelectSeq(deploy.ran, LAMBDA c : c # "login")

\* the override question was answered no
OverrideDeclined ==
    /\ Len(asked) > 0
    /\ asked[Len(asked)].question = "Override existing clasp config?"
    /\ ~asked[Len(asked)].answer

\* C25: the login is run if and only if the credentials file is absent; the
\* override question is put if and only if .clasp-dev.json or dist/.clasp.json
\* exists, and when it is answered no, no deployment file is removed or
\* written and neither create nor clone nor pull is run; otherwise clone and
\* then pull are run if and only if a dev script id was given, and create if
\* and only if it was empty, each after the removal of the previous files.
C25_ClaspSetup ==
    pc # "clasp" =>
        LET configured == deploy.found[".clasp-dev.json"] # Absent
                              \/ deploy.found["dist/.clasp.json"] # Absent
            putQuestion == \E i \in 1..Len(asked) :
                              asked[i].question = "Override existing clasp config?"
            expected == IF deploy.scriptIdDev # ""
                        THEN <<"clean", "clone", "pull">>
                        ELSE <<"clean", "create">>
        IN /\ ("login" \in Range(deploy.ran)) <=> ~deploy.credentials
           /\ putQuestion <=> configured
           /\ (configured /\ options.no /\ ~options.yes) => OverrideDeclined
           /\ OverrideDeclined =>
                /\ deploy.at = deploy.found
                /\ Commands = <<>>
                /\ deploy.arrange = "none"
                /\ deploy.write = "none"
           /\ ~OverrideDeclined =>
                /\ IsPrefix(Commands, expected)
                /\ pc \in {"arrange", "done", "failed"} => Commands = expected

\* an existing configuration was overridden and a script was cloned
C25_Witness ==
    /\ pc = "done"
    /\ deploy.found["dist/.clasp.json"] = Previous
    /\ deploy.found[".clasp-dev.json"] = Absent
    /\ ~deploy.credentials
    /\ deploy.ran = <<"login", "clean", "clone", "pull">>
    /\ deploy.returned = "cloneAndPull"

Rank(position) ==
    CASE position = "title" -> 1
      [] position = "ui" -> 2
      [] position = "load" -> 3
      [] position = "generate" -> 4
      [] position = "scripts" -> 5
      [] position = "install" -> 6
      [] position = "copy" -> 7
      [] position = "merge" -> 8
      [] position = "template" -> 9
      [] position = "clasp" -> 10
      [] position = "clean" -> 11
      [] position \in {"create", "clone"} -> 12
      [] position = "arrange" -> 13
      [] position \in {"done", "failed"} -> 14

\* the place of a position of arrangeFiles in its order
ArrangeRank(position) ==
    CASE position = "none" -> 0
      [] position = "move config" -> 1
      [] position = "move manifest" -> 2
      [] position = "production" -> 3
      [] position \in {"done", "rejected"} -> 4

\* C21: the steps of init() begin in the order determine options, resolve
\* or create the manifest, synchronise scripts, persist the manifest if
\* dirty, install dependencies, copy configs, merge configs, install the
\* template, configure the deployment tool, each after the previous one has
\* completed; the manifest is persisted before the installer is invoked, and
\* no step is executed twice or retried.
C21_StepsInOrder ==
    [][/\ Rank(pc') >= Rank(pc)
       /\ (pc' = pc /\ Rank(pc) < 13) => index' = index + 1
       /\ deploy'.arrange # deploy.arrange =>
            ArrangeRank(deploy'.arrange) > ArrangeRank(deploy.arrange)
       /\ options' # options => Rank(pc) <= 2
       /\ content' # content => Rank(pc) \in 3..6
       /\ saves' # saves =>
            /\ pc = "scripts" /\ index > Len(CONFIG.scripts) /\ pc' = "install"
            /\ saves = 0
       /\ spawned' # spawned =>
            /\ pc = "install"
            /\ needsSave => saves = 1 /\ disk = save(content)
       /\ files' # files =>
            /\ pc \in {"copy", "merge"}
            /\ files'.op = pc
            /\ index \in 1..Len(IF pc = "copy" THEN CONFIG.filesCopy
                                ELSE CONFIG.filesMerge)
       /\ tree' # tree => pc = "template" /\ index \in 1..Len(TemplateItems)
       /\ deploy' # deploy => Rank(pc) >= 10
       /\ (pc # "clasp" /\ pc' = "clasp") =>
            pc = "template" /\ index = Len(TemplateItems)
       /\ (pc # "template" /\ pc' = "template") =>
            pc = "merge" /\ index = Len(CONFIG.filesMerge)
       /\ (pc # "merge" /\ pc' = "merge") =>
            pc = "copy" /\ index = Len(CONFIG.filesCopy)
       /\ (pc # "copy" /\ pc' = "copy") => pc = "install"]_vars

\* a run that went through every step: it made and saved a manifest, ran the
\* installer, wrote a config file, copied a template and created a project
C21_Witness ==
    /\ pc = "done"
    /\ saves = 1
    /\ spawned # <<>>
    /\ files.op = "merge"
    /\ files.written
    /\ tree.copied
    /\ deploy.ran = <<"clean", "create">>

\* the config table of a choice of UI
TableOf(uiFramework) ==
    CASE uiFramework = "angular" -> configForAngular
      [] uiFramework = "svelte" -> configForSvelte
      [] OTHER -> config

\* C27: the active config table is assigned once, before any step reads a
\* table of it, and never changes afterwards; 'angular' selects
\* configForAngular and 'svelte' configForSvelte, both with ui = true and the
\* matching uiFramework, any other answer the base config with ui = false;
\* assume-yes chooses 'angular' and assume-no alone 'none', without a prompt.
C27_ConfigAssignedOnce ==
    [][/\ CONFIG' # CONFIG => pc = "ui" /\ CONFIG = NoConfig
       /\ pc = "ui" /\ pc' # pc =>
            /\ CONFIG' = TableOf(options'.uiFramework)
            /\ CONFIG' \in {config, configForAngular, configForSvelte}
            /\ options'.ui <=> options'.uiFramework \in {"angular", "svelte"}
            /\ options'.ui <=> CONFIG' # config
            /\ options.yes => CONFIG' = configForAngular /\ prompted' = prompted
            /\ (options.no /\ ~options.yes) =>
                 CONFIG' = config /\ prompted' = prompted
       /\ Rank(pc) > 2 =>
            /\ CONFIG' = CONFIG
            /\ CONFIG = TableOf(options.uiFramework)
            /\ options'.ui = options.ui
            /\ options'.uiFramework = options.uiFramework]_vars

\* a run that ended with the table of the Svelte UI chosen at the prompt
C27_Witness ==
    /\ pc = "done"
    /\ CONFIG = configForSvelte
    /\ options.ui
    /\ options.uiFramework = "svelte"
    /\ files.op = "merge"
    /\ deploy.returned = "create"

\* a step of the run has raised a failure
FailureRaised ==
    \/ call.threw
    \/ files.threw
    \/ tree.threw
    \/ deploy.arrange = "rejected"

\* C23: a failure raised in any step of init() aborts the run; it reaches the
\* catch of run(), which prints its message, no later step is started, and
\* what earlier steps wrote stays as written.
C23_FailureAborts ==
    FailureRaised => pc = "failed" /\ ~deploy.unhandled

\* C24: the manifest and the copied and merged config files are written
\* through the atomic write primitive; at every point of a write, a crash in
\* the middle of it included, the file at the path holds the whole of its
\* previous content or the whole of its new content, never a part of one.
C24_WholeOrPrevious ==
    atomic.phase # "none" =>
        /\ atomic.onDisk.whole
        /\ atomic.onDisk.of \in {atomic.previous, atomic.data}
        /\ atomic.phase = "written" => atomic.onDisk.of = atomic.data
        /\ atomic.phase \in {"temporary", "crashed"} =>
             atomic.onDisk.of = atomic.previous
        /\ atomic.path \in {"./package.json"}
               \cup {CONFIG.filesCopy[i][2] : i \in 1..Len(CONFIG.filesCopy)}
               \cup {CONFIG.filesMerge[i][2] : i \in 1..Len(CONFIG.filesMerge)}

\* a crash after a part of a merged .gitignore went to the temporary file
C24_Witness ==
    /\ atomic.phase = "crashed"
    /\ atomic.path = ".gitignore"
    /\ atomic.temporary > 0
    /\ atomic.temporary < atomic.pieces
    /\ atomic.previous # Undefined
    /\ atomic.previous # atomic.data
====
